---------------------------- MODULE Spec2Model ----------------------------
(***************************************************************************)
(* State-machine model of the kokoro orchestration engine:                 *)
(*   - task lifecycle (task_center: TaskLifecycleManager, publish_task,    *)
(*     TaskDispatcher.create_task),                                        *)
(*   - auditor assignment, score archive and continuous reward             *)
(*     distribution (task_center: AuditTaskCreator, ScoreArchive,          *)
(*     ContinuousRewardDistributor, common: RewardService, ScoringService),*)
(*   - the miner-side queue scheduler (miner: QueueManager, GPUManager),   *)
(*   - the worker registry, task assignment and publish validation         *)
(*     (task_center: MinerCache, MinerSelector, TaskValidator).            *)
(* Lifecycle time is counted in days, registry time in seconds.  Optional  *)
(* values (Python None) are modelled as sequences of length zero or one.   *)
(***************************************************************************)
EXTENDS Integers, Sequences, FiniteSets, Bags, TLC

VARIABLES
    \* task center: lifecycle
    now,            \* wall clock, in days
    tasks,          \* Task table: workflow_id -> row
    lastPublish,    \* outcome of the most recent publish / create request
    \* miner: queue scheduler
    high_priority_queue,    \* the three lanes hold references to QueuedTask objects
    medium_priority_queue,
    low_priority_queue,
    jobs,           \* the QueuedTask objects, in order of construction
    running_tasks,  \* dict task_id -> QueuedTask reference
    completed_tasks,\* dict task_id -> QueuedTask reference
    gpus,           \* GPUManager.gpus
    execs,          \* the _execute_task coroutines that have not returned yet
    lastEnqueue,    \* outcome of the most recent enqueue_task call
    \* task center: audits, scores, rewards
    audits,         \* AuditTask table, in insertion order; a row's index is its id
    validators,     \* Validator table: hotkey -> reputation
    submissions,    \* MinerSubmission table: <<workflow_id, miner>> -> latest created_at
    scores,         \* Score table: a bag of rows
    rewards,        \* RewardDistribution table: a set of rows
    clock,          \* number of completion timestamps handed out so far
    lastCall,       \* the most recent distribute_rewards_for_completed_audit call
    trigCount,      \* per worker: score submissions that called the distributor
    \* task center: score aggregation
    final_scores,   \* the final_score values stored for one (task, worker)
    aggregated,     \* the aggregate last computed from final_scores, if any
    \* task center: worker registry (MinerCache)
    cache,          \* MinerCache._cache: hotkey -> record
    wall,           \* wall clock of the registry, in seconds
    onlineReport,   \* the most recent is_miner_online / get_online_miners result
    \* task center: task assignment (MinerSelector)
    miner_rows,     \* Miner table: the hotkeys that have a row
    assignments,    \* TaskAssignment table, in insertion order
    deliveries,     \* the delivery attempts made, in order
    assignCalls,    \* the assign_task_to_miners coroutines that have not returned
    lastSelect,     \* the most recent select_miners_for_task call and its result
    lastDelivery,   \* the POSTs of the most recently finished delivery
    \* task center: publish validation
    lastRequest,    \* the most recent publish request that was validated
    lastErrors      \* the error list returned for it

lifeVars == <<now, tasks, lastPublish>>

schedVars == <<high_priority_queue, medium_priority_queue, low_priority_queue, jobs,
               running_tasks, completed_tasks, gpus, execs, lastEnqueue>>

auditVars == <<audits, validators, submissions, scores, rewards, clock, lastCall,
               trigCount>>

aggVars == <<final_scores, aggregated>>

regVars == <<cache, wall, onlineReport>>

selVars == <<miner_rows, assignments, deliveries, assignCalls, lastSelect,
             lastDelivery>>

valVars == <<lastRequest, lastErrors>>

\* task center: registry, task assignment and request validation
centerVars == <<regVars, selVars, valVars>>

vars == <<lifeVars, schedVars, auditVars, aggVars, centerVars>>

-----------------------------------------------------------------------------
(* Bounds of the model *)

MaxTime == 3
MaxJobs == 3            \* enqueue_task calls accepted in a run
MaxQueueSize == 2       \* QueueManager(max_queue_size=...)
MaxTrainingJobs == 1    \* QueueManager(max_training_jobs=...)
GpuCount == 2           \* GPUManager(gpu_count=2)
MaxAudits == 5          \* rows of the AuditTask table
MaxScores == 4          \* rows of the Score table
MaxClock == 3           \* update_audit_task_status calls
MaxAggLen == 4          \* scores collected for one (task, worker)
MaxWall == 130          \* registry time, in seconds
MaxCalls == 2           \* assign_task_to_miners calls in a run

WorkflowIds == {"w1"}

-----------------------------------------------------------------------------
(* Optional values *)

None == <<>>
Some(x) == <<x>>
IsSet(o) == o # None
Val(o) == o[1]

-----------------------------------------------------------------------------
(* Task lifecycle *)

\* TaskStatus members used by the lifecycle, in phase order.
StatusOrder == <<"pending", "announcement", "execution", "review", "reward", "ended">>

Rank(s) == CHOOSE i \in 1..Len(StatusOrder) : StatusOrder[i] = s

WorkflowTypes == {"text_lora_creation", "image_lora_creation"}

\* Values a request may carry in workflow_type (one of them is not a known type).
RequestTypes == WorkflowTypes \cup {"video_lora_creation"}

\* Values a request may carry in a duration field (days; floats in the code).
RequestDurations == {0 - 1, 0, 1}

\* A TaskCreate request body (task_center/schemas/task.py).
TaskCreate == [workflow_type : RequestTypes,
               publish_status : {"draft", "published"},
               announcement_duration : RequestDurations,
               execution_duration : RequestDurations,
               review_duration : RequestDurations,
               reward_duration : RequestDurations]

\* TaskValidator.validate_task_create: the duration loop checks three fields.
ValidatedDurationFields(d) ==
    <<d.announcement_duration, d.execution_duration, d.review_duration>>

DurationErrors(d) ==
    {i \in 1..Len(ValidatedDurationFields(d)) : ValidatedDurationFields(d)[i] < 0}

ValidateTaskCreate(d) ==
    /\ d.workflow_type \in WorkflowTypes
    /\ DurationErrors(d) = {}

\* The boundaries counted from time 0 instead of the time of the request.
Boundaries_FromZero(t0, d) ==
    [announcement_start |-> Some(0),
     execution_start |-> Some(d.announcement_duration),
     review_start |-> Some(d.announcement_duration + d.execution_duration),
     reward_start |-> Some(d.announcement_duration + d.execution_duration
                           + d.review_duration),
     workflow_end |-> Some(d.announcement_duration + d.execution_duration
                           + d.review_duration + d.reward_duration)]

\* The five boundaries stamped from "now" and the request's durations.
Boundaries(t0, d) ==
    LET announcement_start == t0
        execution_start == announcement_start + d.announcement_duration
        review_start == execution_start + d.execution_duration
        reward_start == review_start + d.review_duration
        workflow_end == reward_start + d.reward_duration
    IN [announcement_start |-> Some(announcement_start),
        execution_start |-> Some(execution_start),
        review_start |-> Some(review_start),
        reward_start |-> Some(reward_start),
        workflow_end |-> Some(workflow_end)]

NoBoundaries ==
    [announcement_start |-> None, execution_start |-> None, review_start |-> None,
     reward_start |-> None, workflow_end |-> None]

TaskRow(status, publish_status, workflow_type, b) ==
    [status |-> status, publish_status |-> publish_status,
     workflow_type |-> workflow_type,
     announcement_start |-> b.announcement_start,
     execution_start |-> b.execution_start,
     review_start |-> b.review_start,
     reward_start |-> b.reward_start,
     workflow_end |-> b.workflow_end]

\* publish_task refuses a task whose publish_status is already PUBLISHED.
AlreadyPublished_NoCheck(t) == FALSE

AlreadyPublished(t) == t.publish_status = "published"

\* TaskDispatcher.create_task: stores a new row; a draft gets status PENDING
\* and no boundaries, anything else starts in ANNOUNCEMENT.  Its call site
\* (publish_task) runs validate_task_create before it.
CreateTask(w, d) ==
    /\ w \notin DOMAIN tasks
    /\ ValidateTaskCreate(d)
    /\ LET initial_status == IF d.publish_status = "draft" THEN "pending"
                             ELSE "announcement"
           b == IF initial_status # "pending" THEN Boundaries(now, d) ELSE NoBoundaries
       IN tasks' = tasks @@ (w :> TaskRow(initial_status, d.publish_status,
                                          d.workflow_type, b))
    /\ lastPublish' = [workflow_id |-> w, outcome |-> "created"]
    /\ UNCHANGED <<now, schedVars, auditVars, aggVars, centerVars>>

\* publish_task, request rejected by validation (HTTP 400), nothing stored.
PublishInvalid(w, d) ==
    /\ ~ValidateTaskCreate(d)
    /\ lastPublish' = [workflow_id |-> w, outcome |-> "validation_failed"]
    /\ UNCHANGED <<now, tasks, schedVars, auditVars, aggVars, centerVars>>

\* publish_task for a workflow_id that has no row: db.refresh(None) raises
\* before the branch on existing_task, the request fails and nothing is stored.
PublishUnknown(w, d) ==
    /\ ValidateTaskCreate(d)
    /\ w \notin DOMAIN tasks
    /\ lastPublish' = [workflow_id |-> w, outcome |-> "error"]
    /\ UNCHANGED <<now, tasks, schedVars, auditVars, aggVars, centerVars>>

\* publish_task for an existing row that is already published (HTTP 400).
PublishAgain(w, d) ==
    /\ ValidateTaskCreate(d)
    /\ w \in DOMAIN tasks
    /\ AlreadyPublished(tasks[w])
    /\ lastPublish' = [workflow_id |-> w, outcome |-> "already_published"]
    /\ UNCHANGED <<now, tasks, schedVars, auditVars, aggVars, centerVars>>

\* publish_task for an existing, not yet published row: the row is moved to
\* ANNOUNCEMENT and the five boundaries are stamped.
PublishTask(w, d) ==
    /\ ValidateTaskCreate(d)
    /\ w \in DOMAIN tasks
    /\ ~AlreadyPublished(tasks[w])
    /\ tasks' = [tasks EXCEPT ![w] =
                    TaskRow("announcement", "published", d.workflow_type,
                            Boundaries(now, d))]
    /\ lastPublish' = [workflow_id |-> w, outcome |-> "published"]
    /\ UNCHANGED <<now, schedVars, auditVars, aggVars, centerVars>>

\* A loop body that moves a task straight to Review when the start of its
\* Review phase has passed, whatever phase it is in.
UpdateStatus_ToLatest(t, n) ==
    IF t.status \in {"announcement", "execution"}
       /\ IsSet(t.review_start) /\ n >= Val(t.review_start)
    THEN [t EXCEPT !.status = "review"]
    ELSE IF t.status = "announcement"
            /\ IsSet(t.execution_start) /\ n >= Val(t.execution_start)
    THEN [t EXCEPT !.status = "execution"]
    ELSE t

\* One iteration of the loop body of _update_task_statuses for one task:
\* at most one transition, to the next phase, when its boundary has passed.
UpdateStatus(t, n) ==
    IF t.status = "announcement"
    THEN IF IsSet(t.execution_start) /\ n >= Val(t.execution_start)
         THEN [t EXCEPT !.status = "execution"] ELSE t
    ELSE IF t.status = "execution"
    THEN IF IsSet(t.review_start) /\ n >= Val(t.review_start)
         THEN [t EXCEPT !.status = "review"] ELSE t
    ELSE IF t.status = "review"
    THEN IF IsSet(t.reward_start) /\ n >= Val(t.reward_start)
         THEN [t EXCEPT !.status = "reward"] ELSE t
    ELSE IF t.status = "reward"
    THEN IF IsSet(t.workflow_end) /\ n >= Val(t.workflow_end)
         THEN [t EXCEPT !.status = "ended"] ELSE t
    ELSE t

\* A query that leaves out the tasks in their reward phase.
ActiveStatuses_NoReward == {"announcement", "execution", "review"}

\* The statuses _update_task_statuses selects.
ActiveStatuses == {"announcement", "execution", "review", "reward"}

\* TaskLifecycleManager._update_task_statuses: one pass over the active tasks.
LifecycleTick ==
    /\ tasks' = [w \in DOMAIN tasks |->
                    IF tasks[w].status \in ActiveStatuses
                    THEN UpdateStatus(tasks[w], now) ELSE tasks[w]]
    /\ UNCHANGED <<now, lastPublish, schedVars, auditVars, aggVars, centerVars>>

\* Passage of time between requests and ticks.
AdvanceTime ==
    /\ now < MaxTime
    /\ now' = now + 1
    /\ UNCHANGED <<tasks, lastPublish, schedVars, auditVars, aggVars, centerVars>>


-----------------------------------------------------------------------------
(* Miner-side queue scheduler *)

JobIds == {"x", "y"}

TrainingTypes == {"text_lora_training", "image_lora_training"}

\* enqueue_task: classification of the request's workflow_type into a
\* task_type and a priority lane.
Classify(workflow_type) ==
    IF workflow_type = "text_lora_creation"
    THEN [task_type |-> "text_lora_training", priority |-> "MEDIUM"]
    ELSE IF workflow_type = "image_lora_creation"
    THEN [task_type |-> "image_lora_training", priority |-> "MEDIUM"]
    ELSE [task_type |-> "unknown", priority |-> "LOW"]

\* QueuedTask.__init__
QueuedTask(task_id, priority, task_type, workflow_type) ==
    [task_id |-> task_id, priority |-> priority, task_type |-> task_type,
     workflow_type |-> workflow_type, status |-> "pending",
     started |-> FALSE, completed |-> FALSE, result |-> FALSE, error |-> FALSE]

get_total_queue_size ==
    Len(high_priority_queue) + Len(medium_priority_queue) + Len(low_priority_queue)

\* GPUManager.get_available_gpu_count
get_available_gpu_count == Cardinality({g \in DOMAIN gpus : gpus[g].available})

\* GPUManager.allocate_gpu: the first available slot, if any.
allocate_gpu_ignoring_available(g) == Some(1)

allocate_gpu(g) ==
    IF \E i \in DOMAIN g : g[i].available
    THEN Some(CHOOSE i \in DOMAIN g :
                 g[i].available /\ \A j \in DOMAIN g : g[j].available => i <= j)
    ELSE None

FreeGpu == [available |-> TRUE, current_task |-> None]

\* A "finally" block that leaves the slot marked taken.
release_gpu_skipped(g, gpu_id) == g

\* GPUManager.release_gpu
release_gpu(g, gpu_id) == [g EXCEPT ![gpu_id] = FreeGpu]

\* A mapping with one key removed (dict.pop(key, None)).
Pop(d, k) == [x \in DOMAIN d \ {k} |-> d[x]]

\* A mapping with one key set (d[k] = v).
Put(d, k, v) == [x \in DOMAIN d \cup {k} |-> IF x = k THEN v ELSE d[x]]

\* enqueue_task rejected: the lanes already hold max_queue_size jobs.
EnqueueFull(task_id, workflow_type) ==
    /\ get_total_queue_size >= MaxQueueSize
    /\ lastEnqueue' = "queue_full"
    /\ UNCHANGED <<high_priority_queue, medium_priority_queue, low_priority_queue,
                   jobs, running_tasks, completed_tasks, gpus, execs, lifeVars, auditVars, aggVars, centerVars>>

\* enqueue_task accepted: a new QueuedTask is appended to its lane.
EnqueueTask(task_id, workflow_type) ==
    /\ Len(jobs) < MaxJobs
    /\ get_total_queue_size < MaxQueueSize
    /\ LET c == Classify(workflow_type)
           o == Len(jobs) + 1
       IN /\ jobs' = Append(jobs, QueuedTask(task_id, c.priority, c.task_type,
                                             workflow_type))
          /\ IF c.priority = "HIGH"
             THEN /\ high_priority_queue' = Append(high_priority_queue, o)
                  /\ UNCHANGED <<medium_priority_queue, low_priority_queue>>
             ELSE IF c.priority = "MEDIUM"
             THEN /\ medium_priority_queue' = Append(medium_priority_queue, o)
                  /\ UNCHANGED <<high_priority_queue, low_priority_queue>>
             ELSE /\ low_priority_queue' = Append(low_priority_queue, o)
                  /\ UNCHANGED <<high_priority_queue, medium_priority_queue>>
    /\ lastEnqueue' = "queued"
    /\ UNCHANGED <<running_tasks, completed_tasks, gpus, execs, lifeVars, auditVars, aggVars, centerVars>>

\* A lane test in the opposite order: the low lane is looked at first.
Dequeued_LowFirst ==
    IF low_priority_queue # <<>> THEN Some(Head(low_priority_queue))
    ELSE IF medium_priority_queue # <<>> THEN Some(Head(medium_priority_queue))
    ELSE IF high_priority_queue # <<>> THEN Some(Head(high_priority_queue))
    ELSE None

\* The job _process_queue takes: the head of the first non-empty lane.
Dequeued ==
    IF high_priority_queue # <<>> THEN Some(Head(high_priority_queue))
    ELSE IF medium_priority_queue # <<>> THEN Some(Head(medium_priority_queue))
    ELSE IF low_priority_queue # <<>> THEN Some(Head(low_priority_queue))
    ELSE None

\* Lanes from which the dequeued job has not been removed.
AfterGet_KeepsHead ==
    <<high_priority_queue, medium_priority_queue, low_priority_queue>>

\* The lanes after the get() of _process_queue.
AfterGet ==
    IF high_priority_queue # <<>>
    THEN <<Tail(high_priority_queue), medium_priority_queue, low_priority_queue>>
    ELSE IF medium_priority_queue # <<>>
    THEN <<high_priority_queue, Tail(medium_priority_queue), low_priority_queue>>
    ELSE <<high_priority_queue, medium_priority_queue, Tail(low_priority_queue)>>

\* A blocked job that is not put back.
PutBack_Dropped(lanes, o) == lanes

\* _put_back: the job goes to the tail of the lane of its priority.
PutBack(lanes, o) ==
    IF jobs[o].priority = "HIGH" THEN <<Append(lanes[1], o), lanes[2], lanes[3]>>
    ELSE IF jobs[o].priority = "MEDIUM" THEN <<lanes[1], Append(lanes[2], o), lanes[3]>>
    ELSE <<lanes[1], lanes[2], Append(lanes[3], o)>>

\* _process_queue: the number of training-class entries of running_tasks.
training_count ==
    Cardinality({k \in DOMAIN running_tasks :
                    jobs[running_tasks[k]].task_type \in TrainingTypes})

\* One scheduler tick (_process_queue).  A coroutine created by the previous
\* tick runs its first segment during the loop's sleep, before the next tick.
ProcessQueue ==
    /\ \A o \in DOMAIN execs : execs[o].pc # "spawned"
    /\ IF get_available_gpu_count = 0 \/ Dequeued = None
       THEN UNCHANGED <<high_priority_queue, medium_priority_queue,
                        low_priority_queue, gpus, execs>>
       ELSE LET o == Val(Dequeued)
                gpu_id == allocate_gpu(gpus)
                blocked == /\ jobs[o].task_type \in TrainingTypes
                           /\ training_count >= MaxTrainingJobs
                lanes == IF blocked \/ gpu_id = None
                         THEN PutBack(AfterGet, o) ELSE AfterGet
            IN /\ high_priority_queue' = lanes[1]
               /\ medium_priority_queue' = lanes[2]
               /\ low_priority_queue' = lanes[3]
               /\ IF blocked \/ gpu_id = None
                  THEN UNCHANGED <<gpus, execs>>
                  ELSE /\ gpus' = [gpus EXCEPT ![Val(gpu_id)] =
                                     [available |-> FALSE,
                                      current_task |-> Some(jobs[o].task_type)]]
                       /\ execs' = Put(execs, o, [gpu |-> Val(gpu_id), pc |-> "spawned"])
    /\ UNCHANGED <<jobs, running_tasks, completed_tasks, lastEnqueue, lifeVars, auditVars, aggVars, centerVars>>

\* The "finally" block of _execute_task.
Finally(o, job) ==
    /\ gpus' = release_gpu(gpus, execs[o].gpu)
    /\ running_tasks' = Pop(running_tasks, job.task_id)
    /\ completed_tasks' = Put(completed_tasks, job.task_id, o)
    /\ execs' = Pop(execs, o)

\* _execute_task up to its first await: the job is registered in
\* running_tasks; a workflow_type that is not a WorkflowType fails at once.
ExecuteStart(o) ==
    /\ o \in DOMAIN execs
    /\ execs[o].pc = "spawned"
    /\ IF jobs[o].workflow_type \in WorkflowTypes
       THEN /\ jobs' = [jobs EXCEPT ![o].status = "processing", ![o].started = TRUE]
            /\ running_tasks' = Put(running_tasks, jobs[o].task_id, o)
            /\ execs' = [execs EXCEPT ![o].pc = "training"]
            /\ UNCHANGED <<gpus, completed_tasks>>
       ELSE /\ jobs' = [jobs EXCEPT ![o].status = "failed", ![o].started = TRUE,
                                    ![o].completed = TRUE, ![o].error = TRUE]
            /\ Finally(o, jobs[o])
    /\ UNCHANGED <<high_priority_queue, medium_priority_queue, low_priority_queue,
                   lastEnqueue, lifeVars, auditVars, aggVars, centerVars>>

\* _execute_task after training and local testing returned (ok) or raised.
ExecuteFinish(o, ok) ==
    /\ o \in DOMAIN execs
    /\ execs[o].pc = "training"
    /\ jobs' = IF ok
               THEN [jobs EXCEPT ![o].status = "completed", ![o].completed = TRUE,
                                 ![o].result = TRUE]
               ELSE [jobs EXCEPT ![o].status = "failed", ![o].completed = TRUE,
                                 ![o].error = TRUE]
    /\ Finally(o, jobs[o])
    /\ UNCHANGED <<high_priority_queue, medium_priority_queue, low_priority_queue,
                   lastEnqueue, lifeVars, auditVars, aggVars, centerVars>>

SchedInit ==
    /\ high_priority_queue = <<>>
    /\ medium_priority_queue = <<>>
    /\ low_priority_queue = <<>>
    /\ jobs = <<>>
    /\ running_tasks = <<>>
    /\ completed_tasks = <<>>
    /\ gpus = [i \in 1..GpuCount |-> FreeGpu]
    /\ execs = <<>>
    /\ lastEnqueue = "none"

SchedNext ==
    \/ \E j \in JobIds, t \in RequestTypes : EnqueueFull(j, t)
    \/ \E j \in JobIds, t \in RequestTypes : EnqueueTask(j, t)
    \/ ProcessQueue
    \/ \E o \in DOMAIN execs : ExecuteStart(o)
    \/ \E o \in DOMAIN execs, ok \in BOOLEAN : ExecuteFinish(o, ok)

-----------------------------------------------------------------------------
(* Exact arithmetic on the floats of the scoring code: a rational is a     *)
(* record [num, den] in lowest terms with den > 0.                         *)

RECURSIVE GCD(_, _)
GCD(a, b) == IF b = 0 THEN a ELSE GCD(b, a % b)

Abs(x) == IF x < 0 THEN 0 - x ELSE x

Rat(n, d) ==
    LET g == GCD(Abs(n), Abs(d))
        sgn == IF d < 0 THEN 0 - 1 ELSE 1
    IN [num |-> sgn * (n \div g), den |-> sgn * (d \div g)]

RAdd(a, b) == Rat(a.num * b.den + b.num * a.den, a.den * b.den)
RMul(a, b) == Rat(a.num * b.num, a.den * b.den)
RDiv(a, b) == Rat(a.num * b.den, a.den * b.num)
RLess(a, b) == a.num * b.den < b.num * a.den
RZero == Rat(0, 1)

\* A dict is a set of <<key, value>> pairs with distinct keys.

RECURSIVE RSum(_)
\* sum(dict.values()) of a dict of rationals.
RSum(dict) ==
    IF dict = {} THEN RZero
    ELSE LET p == CHOOSE q \in dict : TRUE IN RAdd(p[2], RSum(dict \ {p}))

RECURSIVE SeqSum(_)
SeqSum(s) == IF s = <<>> THEN 0 ELSE Head(s) + SeqSum(Tail(s))

-----------------------------------------------------------------------------
(* Score aggregation *)

\* sorted(list): ascending; element i goes to position 1 + the number of
\* elements that sort before it.
Sorted(s) ==
    LET before(i, j) == s[i] < s[j] \/ (s[i] = s[j] /\ i < j)
        pos(i) == 1 + Cardinality({j \in DOMAIN s : before(j, i)})
    IN [p \in DOMAIN s |-> s[CHOOSE i \in DOMAIN s : pos(i) = p]]

\* The slice scores_sorted[1:-1].
Trimmed_KeepsHighest(s) == SubSeq(s, 2, Len(s))

Trimmed(s) == SubSeq(s, 2, Len(s) - 1)

Mean(s) == Rat(SeqSum(s), Len(s))

\* The number of scores from which the extremes are discarded.
TrimThreshold == 3

\* ScoreArchive.get_all_scores_for_workflow: average_score of one miner's
\* list of final_score values.
average_score(score_list) ==
    IF Len(score_list) >= TrimThreshold
    THEN Mean(Trimmed(Sorted(score_list)))
    ELSE IF score_list # <<>> THEN Mean(score_list) ELSE RZero

\* ConsensusSync.aggregate_scores: the same rule, recomputed from the lists
\* returned by get_all_scores_for_workflow.
aggregate_scores(score_list) ==
    IF Len(score_list) >= TrimThreshold
    THEN Mean(Trimmed(Sorted(score_list)))
    ELSE IF score_list # <<>> THEN Mean(score_list) ELSE RZero

-----------------------------------------------------------------------------
(* Scoring and reward arithmetic *)

Baseline_Lowered == Rat(1, 1)

Baseline == Rat(7, 2)       \* 3.5

\* ScoringService.calculate_quality_score with k = 3.
calculate_quality_score(score) ==
    IF RLess(score, Baseline) THEN RZero ELSE RMul(score, RMul(score, score))

\* common/utils/time.calculate_time_coefficient; times are in days.
calculate_time_coefficient(submit_time, execution_start) ==
    LET hours_since_start == 24 * (submit_time - execution_start)
    IN IF hours_since_start < 6 THEN Rat(8, 10)
       ELSE IF 24 <= hours_since_start /\ hours_since_start <= 48 THEN Rat(1, 1)
       ELSE IF hours_since_start > 48
       THEN LET coefficient == Rat(1000 - (hours_since_start - 48) * 5, 1000)
            IN IF RLess(coefficient, Rat(1, 2)) THEN Rat(1, 2) ELSE coefficient
       ELSE Rat(1, 1)

\* ScoringService.calculate_final_weight
calculate_final_weight(quality_score, time_coefficient, constraint_coefficient) ==
    IF quality_score = RZero THEN RZero
    ELSE RMul(quality_score, RMul(time_coefficient, constraint_coefficient))

\* RewardService.calculate_rewards: the pool of the task type.
task_pool(task_type, total_emission) ==
    IF task_type = "text_lora_creation" THEN RMul(Rat(total_emission, 1), Rat(27, 100))
    ELSE IF task_type = "image_lora_creation"
    THEN RMul(Rat(total_emission, 1), Rat(63, 100))
    ELSE RMul(RMul(Rat(total_emission, 1), Rat(90, 100)), Rat(50, 100))

\* RewardService.calculate_rewards with miner_weights given: the dict
\* miner -> reward.
calculate_rewards(miner_weights, task_type, total_emission) ==
    LET total_weight == RSum(miner_weights)
    IN IF total_weight = RZero
       THEN {<<p[1], RZero>> : p \in miner_weights}
       ELSE {<<p[1], IF p[2] = RZero THEN RZero
                     ELSE RMul(RDiv(p[2], total_weight),
                               task_pool(task_type, total_emission))>> :
                p \in miner_weights}

-----------------------------------------------------------------------------
(* Audit tasks, scores and continuous reward distribution *)

Miners == {"m1", "m2"}

\* The nodes the chain lists, in the order get_all_miners returns them.
ChainNodes == <<"v1", "v2", "v3", "v4">>

Validators == {ChainNodes[i] : i \in DOMAIN ChainNodes}

\* The auditors that report scores and the values they report.
Scorers == {"v1"}
ScoreValues == {2, 4}

\* Values get_emission returns (0.0 when the chain query fails).
Emissions == {0, 100}

ValidatorsPerTask == 3      \* AuditTaskCreator.validators_per_task
QuorumSize == 3             \* the literal of ScoreArchive.submit_score

AuditRow(w, m, v) ==
    [original_task_id |-> w, miner_hotkey |-> m, validator_hotkey |-> v,
     is_completed |-> FALSE, completed_at |-> None, result |-> None]

\* Rows of the audit table that satisfy a condition, as a set of ids.
AuditsOf(auds, w, m) ==
    {a \in DOMAIN auds : auds[a].original_task_id = w /\ auds[a].miner_hotkey = m}

AssignedTo(auds, w, m, v) ==
    {a \in AuditsOf(auds, w, m) : auds[a].validator_hotkey = Some(v)}

\* Ensures a Validator row (reputation 0.0 for a new one).
EnsureValidator(vals, v) == IF v \in DOMAIN vals THEN vals ELSE vals @@ (v :> 0)

\* AuditTaskCreator.assign_audit_task_to_validator on the table auds: the
\* table with the clone appended, or unchanged when the base row is missing
\* or the (task, miner, validator) triple is already assigned.
CanAssign(auds, audit_task_id, validator_key) ==
    /\ audit_task_id \in DOMAIN auds
    /\ AssignedTo(auds, auds[audit_task_id].original_task_id,
                  auds[audit_task_id].miner_hotkey, validator_key) = {}

Assign(auds, audit_task_id, validator_key) ==
    IF CanAssign(auds, audit_task_id, validator_key)
    THEN Append(auds, AuditRow(auds[audit_task_id].original_task_id,
                               auds[audit_task_id].miner_hotkey,
                               Some(validator_key)))
    ELSE auds

\* auto_assign_audit_tasks: pending_count and priority_score (in tenths) of
\* a candidate, taken once at the start of the pass.
pending_count(auds, v) ==
    Cardinality({a \in DOMAIN auds :
                    auds[a].validator_hotkey = Some(v) /\ ~auds[a].is_completed})

priority_score(vals, auds, v) == vals[v] * 7 - pending_count(auds, v) * 3

\* Python's tuple comparison a > b on key tuples of length three.
KeyGreater(a, b) ==
    \/ a[1] > b[1]
    \/ a[1] = b[1] /\ a[2] > b[2]
    \/ a[1] = b[1] /\ a[2] = b[2] /\ a[3] > b[3]

RECURSIVE SortReverse(_, _)
\* sorted(..., reverse=True) on the positions in I of a list: descending by
\* key, positions with equal keys keep their original order.
SortReverse(I, key) ==
    IF I = {} THEN <<>>
    ELSE LET first == CHOOSE i \in I :
                         \A j \in I \ {i} :
                             \/ KeyGreater(key[i], key[j])
                             \/ key[i] = key[j] /\ i < j
         IN <<first>> \o SortReverse(I \ {first}, key)

\* eligible_validators after list.sort(key=priority_score, reverse=True):
\* the active chain nodes, descending by priority.
EligibleValidators(vals, auds, active) ==
    LET idx == {i \in DOMAIN ChainNodes : ChainNodes[i] \in active}
        key == [i \in idx |-> <<priority_score(vals, auds, ChainNodes[i]), 0, 0>>]
        order == SortReverse(idx, key)
    IN [p \in DOMAIN order |-> ChainNodes[order[p]]]

\* A key whose second component is not negated.
Candidates_MostAssignedFirst(elig, prio, pend, count) ==
    LET key == [i \in DOMAIN elig |->
                  <<prio[elig[i]], count[elig[i]], pend[elig[i]]>>]
        order == SortReverse(DOMAIN elig, key)
    IN [p \in DOMAIN order |-> elig[order[p]]]

\* sorted(eligible_validators, key=(priority_score, -assignment_count,
\* pending_count), reverse=True).
Candidates(elig, prio, pend, count) ==
    LET key == [i \in DOMAIN elig |->
                  <<prio[elig[i]], 0 - count[elig[i]], pend[elig[i]]>>]
        order == SortReverse(DOMAIN elig, key)
    IN [p \in DOMAIN order |-> elig[order[p]]]

\* The inner loop over selected_validators for one template, on the state
\* <<audit table, validator_assignment_count>>.  The selected validators are
\* distinct, so whether assign_audit_task_to_validator accepts one does not
\* depend on the clones appended for the others.
AssignSelected(st, template, selected) ==
    LET accepted(v) == CanAssign(st[1], template, v)
        assigned == SelectSeq(selected, accepted)
        clones == [i \in DOMAIN assigned |->
                     AuditRow(st[1][template].original_task_id,
                              st[1][template].miner_hotkey, Some(assigned[i]))]
    IN <<st[1] \o clones,
         [v \in DOMAIN st[2] |->
             IF \E i \in DOMAIN assigned : assigned[i] = v
             THEN st[2][v] + 1 ELSE st[2][v]]>>

\* needed = validators_per_task - assigned_count for a template.
Needed(auds, t) ==
    ValidatorsPerTask
    - Cardinality({a \in AuditsOf(auds, auds[t].original_task_id,
                                  auds[t].miner_hotkey) :
                      auds[a].validator_hotkey # None})

\* selected_validators = candidates[:needed] for a template; none when the
\* template is passed over because assigned_count >= validators_per_task.
SelectedValidators(st, t, elig, prio, pend) ==
    LET needed == Needed(st[1], t)
        candidates == Candidates(elig, prio, pend, st[2])
    IN IF needed <= 0 THEN <<>>
       ELSE SubSeq(candidates, 1,
                   IF needed < Len(candidates) THEN needed ELSE Len(candidates))

RECURSIVE AssignTemplates(_, _, _, _, _, _)
\* The outer loop of auto_assign_audit_tasks over the unassigned templates.
AssignTemplates(st, templates, k, elig, prio, pend) ==
    IF k > Len(templates) THEN st
    ELSE AssignTemplates(
             AssignSelected(st, templates[k],
                            SelectedValidators(st, templates[k], elig, prio, pend)),
             templates, k + 1, elig, prio, pend)

RECURSIVE PassChoices(_, _, _, _, _, _)
\* The same loop, keeping for every template what the iteration saw and
\* chose: needed, validator_assignment_count and selected_validators.
PassChoices(st, templates, k, elig, prio, pend) ==
    IF k > Len(templates) THEN <<>>
    ELSE LET selected == SelectedValidators(st, templates[k], elig, prio, pend)
         IN <<[needed |-> Needed(st[1], templates[k]), count |-> st[2],
               selected |-> selected]>>
            \o PassChoices(AssignSelected(st, templates[k], selected),
                           templates, k + 1, elig, prio, pend)

\* The ids of a set of rows, ascending (query order).
IdSeq(S) ==
    [p \in 1..Cardinality(S) |->
        CHOOSE i \in S : Cardinality({j \in S : j < i}) = p - 1]

\* AuditTaskCreator.auto_assign_audit_tasks(workflow_id) with the chain
\* reporting the nodes of "active" as active: <<audit table, Validator table>>.
auto_assign_audit_tasks(auds, vals, w, active) ==
    LET templates == IdSeq({a \in DOMAIN auds :
                               /\ auds[a].original_task_id = w
                               /\ auds[a].validator_hotkey = None})
        vals2 == [v \in DOMAIN vals \cup active |->
                    IF v \in DOMAIN vals THEN vals[v] ELSE 0]
        elig == EligibleValidators(vals2, auds, active)
        prio == [v \in active |-> priority_score(vals2, auds, v)]
        pend == [v \in active |-> pending_count(auds, v)]
        count0 == [v \in active |-> 0]
    IN IF templates = <<>> THEN <<auds, vals>>
       ELSE IF active = {} THEN <<auds, vals>>
       ELSE <<AssignTemplates(<<auds, count0>>, templates, 1, elig, prio, pend)[1],
              vals2>>

\* TaskDispatcher.receive_miner_submission: stores the submission, creates
\* the audit template and runs the auto-assignment pass for the task.
ReceiveMinerSubmission(w, m, active) ==
    /\ w \in DOMAIN tasks
    /\ LET created == Append(audits, AuditRow(w, m, None))
           r == auto_assign_audit_tasks(created, validators, w, active)
       IN /\ Len(r[1]) <= MaxAudits
          /\ audits' = r[1]
          /\ validators' = r[2]
    /\ submissions' = Put(submissions, <<w, m>>, now)
    /\ UNCHANGED <<scores, rewards, clock, lastCall, trigCount, lifeVars, schedVars, aggVars, centerVars>>

\* receive_audit_task (POST /receive): a direct assignment request.
ReceiveAuditTask(audit_task_id, validator_key) ==
    /\ Len(audits) < MaxAudits
    /\ CanAssign(audits, audit_task_id, validator_key)
    /\ validators' = EnsureValidator(validators, validator_key)
    /\ audits' = Assign(audits, audit_task_id, validator_key)
    /\ UNCHANGED <<submissions, scores, rewards, clock, lastCall, trigCount,
                   lifeVars, schedVars, aggVars, centerVars>>

\* AuditTaskCreator.update_audit_task_status
UpdateAuditTaskStatus(audit_task_id, status, result) ==
    /\ audit_task_id \in DOMAIN audits
    /\ clock < MaxClock
    /\ clock' = IF status = "completed" THEN clock + 1 ELSE clock
    /\ audits' = [audits EXCEPT ![audit_task_id] =
                    [@ EXCEPT !.is_completed = (status = "completed"),
                              !.result = IF result # None THEN result ELSE @,
                              !.completed_at = IF status = "completed"
                                               THEN Some(clock + 1) ELSE @]]
    /\ UNCHANGED <<validators, submissions, scores, rewards, lastCall, trigCount,
                   lifeVars, schedVars, aggVars, centerVars>>

\* TaskLifecycleManager.is_task_in_execution_or_review
is_task_in_execution_or_review_any(w) == w \in DOMAIN tasks

is_task_in_execution_or_review(w) ==
    /\ w \in DOMAIN tasks
    /\ tasks[w].status \in {"execution", "review"}

\* TaskLifecycleManager.is_task_ended
is_task_ended(w) ==
    /\ w \in DOMAIN tasks
    /\ tasks[w].status = "ended"

RECURSIVE BagToSeq(_)
\* The rows of a bag in some order.
BagToSeq(b) ==
    IF BagToSet(b) = {} THEN <<>>
    ELSE LET x == CHOOSE y \in BagToSet(b) : TRUE
         IN <<x>> \o BagToSeq(b (-) SetToBag({x}))

\* The final_score values stored for (workflow, miner).
ScoreList(sc, w, m) ==
    LET rows == BagToSeq([r \in {x \in BagToSet(sc) :
                                    x.workflow_id = w /\ x.miner_hotkey = m}
                             |-> sc[r]])
    IN [i \in DOMAIN rows |-> rows[i].final_score]

\* The miners with at least one score on the workflow.
ScoredMiners(sc, w) == {r.miner_hotkey : r \in {x \in BagToSet(sc) : x.workflow_id = w}}

\* ScoreArchive.get_all_scores_for_workflow: the dict miner -> average_score.
get_all_scores_for_workflow(sc, w) ==
    {<<m, average_score(ScoreList(sc, w, m))>> : m \in ScoredMiners(sc, w)}

\* distribute_rewards_for_completed_audit: eligible_miners, the entries at
\* or above the baseline.
EligibleMiners(sc, w) ==
    {p \in get_all_scores_for_workflow(sc, w) : ~RLess(p[2], Baseline)}

\* distribute_rewards_for_completed_audit: final weight of an eligible miner
\* with average score "score".
MinerWeight(w, m, score) ==
    LET quality_score == calculate_quality_score(score)
        time_coefficient ==
            IF /\ <<w, m>> \in DOMAIN submissions
               /\ IsSet(tasks[w].execution_start)
               /\ IsSet(tasks[w].review_start)
            THEN calculate_time_coefficient(submissions[<<w, m>>],
                                            Val(tasks[w].execution_start))
            ELSE Rat(1, 1)
    IN calculate_final_weight(quality_score, time_coefficient, Rat(1, 1))

\* The rows the distributor adds to the session for one call.
NewRewardRows(sc, audit_task_id, w, total_emission) ==
    LET eligible_miners == EligibleMiners(sc, w)
        miner_weights == {<<p[1], MinerWeight(w, p[1], p[2])>> : p \in eligible_miners}
        rw == calculate_rewards(miner_weights, tasks[w].workflow_type, total_emission)
    IN {[workflow_id |-> w, miner_hotkey |-> p[1], reward_amount |-> p[2],
         distribution_round |-> audit_task_id] :
            p \in {q \in rw : RLess(RZero, q[2])}}

RewardKey(r) == <<r.workflow_id, r.miner_hotkey, r.distribution_round>>

\* db.commit() of the added RewardDistribution rows: the ledger is keyed by
\* (task, worker, distribution round); a commit that would store a second
\* row under a recorded key is rejected as a whole.
LedgerAccepts(ledger, rows) ==
    \A r \in rows : \A old \in ledger : RewardKey(old) # RewardKey(r)

LedgerCommit(ledger, rows) ==
    IF LedgerAccepts(ledger, rows) THEN ledger \cup rows ELSE ledger

\* ContinuousRewardDistributor.distribute_rewards_for_completed_audit, as a
\* function of the score table it reads: <<ledger after the call, outcome>>.
Distribute(sc, audit_task_id, w, total_emission) ==
    IF ~is_task_in_execution_or_review(w) THEN <<rewards, "skipped_phase">>
    ELSE IF is_task_ended(w) THEN <<rewards, "skipped_ended">>
    ELSE IF audit_task_id \notin DOMAIN audits THEN <<rewards, "no_audit">>
    ELSE IF EligibleMiners(sc, w) = {} THEN <<rewards, "no_eligible">>
    ELSE LET rows == NewRewardRows(sc, audit_task_id, w, total_emission)
         IN IF LedgerAccepts(rewards, rows)
            THEN <<LedgerCommit(rewards, rows), "distributed">>
            ELSE <<rewards, "commit_rejected">>

\* The completed audit rows of (workflow, miner).
CompletedAudits(w, m) == {a \in AuditsOf(audits, w, m) : audits[a].is_completed}

\* max(completed_audits, key=completed_at): the first row with the latest
\* completion time.
LatestAudit(S) ==
    CHOOSE a \in S :
        \A b \in S : \/ Val(audits[b].completed_at) < Val(audits[a].completed_at)
                     \/ /\ Val(audits[b].completed_at) = Val(audits[a].completed_at)
                        /\ a <= b

\* The quorum test of submit_score.
QuorumReached(w, m) == Cardinality(CompletedAudits(w, m)) >= QuorumSize

StatusOf(w) == IF w \in DOMAIN tasks THEN tasks[w].status ELSE "absent"

NoCall == [status |-> "absent", outcome |-> "none", added |-> 0]

\* ScoreArchive.submit_score: stores the score row, then calls the
\* distributor when the pair has QuorumSize completed audits.
SubmitScore(w, m, v, final_score, total_emission) ==
    /\ BagCardinality(scores) < MaxScores
    /\ LET sc == scores (+) SetToBag({[workflow_id |-> w, miner_hotkey |-> m,
                                       validator_hotkey |-> v,
                                       final_score |-> final_score]})
       IN /\ scores' = sc
          /\ IF QuorumReached(w, m)
             THEN LET a == LatestAudit(CompletedAudits(w, m))
                      d == Distribute(sc, a, w, total_emission)
                  IN /\ rewards' = d[1]
                     /\ lastCall' = [status |-> StatusOf(w), outcome |-> d[2],
                                     added |-> Cardinality(d[1] \ rewards)]
                     /\ trigCount' = [trigCount EXCEPT ![m] = @ + 1]
             ELSE UNCHANGED <<rewards, lastCall, trigCount>>
    /\ UNCHANGED <<audits, validators, submissions, clock, lifeVars, schedVars, aggVars, centerVars>>

AuditInit ==
    /\ audits = <<>>
    /\ validators = <<>>
    /\ submissions = <<>>
    /\ scores = EmptyBag
    /\ rewards = {}
    /\ clock = 0
    /\ lastCall = NoCall
    /\ trigCount = [m \in Miners |-> 0]


-----------------------------------------------------------------------------
(* Score aggregation on its own: a score list grows one report at a time  *)
(* and is aggregated by both implementations of the rule.                 *)

AggScoreValues == {2, 4, 7, 8, 9}

\* A Score row for the pair is stored.
CollectScore(final_score) ==
    /\ Len(final_scores) < MaxAggLen
    /\ final_scores' = Append(final_scores, final_score)
    /\ aggregated' = None
    /\ UNCHANGED <<lifeVars, schedVars, auditVars, centerVars>>

\* get_all_scores_for_workflow and ConsensusSync.aggregate_scores on the
\* stored list.
AggregateScores ==
    /\ final_scores # <<>>
    /\ aggregated' = Some([average_score |-> average_score(final_scores),
                           miner_aggregated |-> aggregate_scores(final_scores)])
    /\ UNCHANGED <<final_scores, lifeVars, schedVars, auditVars, centerVars>>

AggInit ==
    /\ final_scores = <<>>
    /\ aggregated = None

AggNext ==
    \/ \E s \in AggScoreValues : CollectScore(s)
    \/ AggregateScores

-----------------------------------------------------------------------------
(* Worker registry (MinerCache).  Registry time is counted in seconds.     *)

HeartbeatTimeout == 120     \* MinerCache(heartbeat_timeout=120)

\* The seconds that may pass between two registry operations.
HeartbeatSteps == {60, 61}

\* The dicts handed to update_miner.  A key that is missing from the dict is
\* represented by the default that miner_data.get gives it (stake 0,
\* is_active and is_online False, miner_url and last_heartbeat None).
Stakes == {0, 1000}

MinerUrls == {None, Some("http://m")}

MinerData(heartbeats) ==
    [stake : Stakes, reputation : {0}, is_active : BOOLEAN, is_online : BOOLEAN,
     miner_url : MinerUrls, last_heartbeat : heartbeats]

\* MinerCache.update_miner: the record stored under the hotkey.
CacheRecord(hotkey, miner_data, t) ==
    [hotkey |-> hotkey, stake |-> miner_data.stake,
     reputation |-> miner_data.reputation, is_active |-> miner_data.is_active,
     is_online |-> miner_data.is_online, miner_url |-> miner_data.miner_url,
     last_heartbeat |-> miner_data.last_heartbeat, updated_at |-> t]

\* MinerCache.is_miner_online at time t.  A record whose last_heartbeat is
\* None skips the age test.
is_miner_online(c, hotkey, t) ==
    IF hotkey \notin DOMAIN c THEN FALSE
    ELSE IF ~c[hotkey].is_online THEN FALSE
    ELSE IF /\ IsSet(c[hotkey].last_heartbeat)
            /\ t - Val(c[hotkey].last_heartbeat) > HeartbeatTimeout
    THEN FALSE
    ELSE TRUE

\* MinerCache.get_online_miners at time t: the hotkeys of the records it
\* returns.
get_online_miners(c, t) ==
    {h \in DOMAIN c :
        /\ c[h].is_online
        /\ ~(/\ IsSet(c[h].last_heartbeat)
             /\ t - Val(c[h].last_heartbeat) > HeartbeatTimeout)}

UpdateMiner(hotkey, miner_data) ==
    /\ cache' = Put(cache, hotkey, CacheRecord(hotkey, miner_data, wall))
    /\ UNCHANGED <<wall, onlineReport, selVars, valVars, lifeVars, schedVars,
                   auditVars, aggVars>>

\* MinerCache.clear
ClearCache ==
    /\ cache' = <<>>
    /\ UNCHANGED <<wall, onlineReport, selVars, valVars, lifeVars, schedVars,
                   auditVars, aggVars>>

\* A call of is_miner_online; the result is kept as the set of hotkeys
\* reported online.
IsMinerOnline(hotkey) ==
    /\ onlineReport' = [op |-> "is_miner_online", asked |-> {hotkey}, at |-> wall,
                        online |-> IF is_miner_online(cache, hotkey, wall)
                                   THEN {hotkey} ELSE {}]
    /\ UNCHANGED <<cache, wall, selVars, valVars, lifeVars, schedVars, auditVars,
                   aggVars>>

\* A call of get_online_miners.
GetOnlineMiners ==
    /\ onlineReport' = [op |-> "get_online_miners", asked |-> DOMAIN cache,
                        at |-> wall, online |-> get_online_miners(cache, wall)]
    /\ UNCHANGED <<cache, wall, selVars, valVars, lifeVars, schedVars, auditVars,
                   aggVars>>

\* Passage of registry time.
WallAdvance(d) ==
    /\ wall + d <= MaxWall
    /\ wall' = wall + d
    /\ UNCHANGED <<cache, onlineReport, selVars, valVars, lifeVars, schedVars,
                   auditVars, aggVars>>

NoReport == [op |-> "none", asked |-> {}, at |-> 0, online |-> {}]

RegInit ==
    /\ cache = <<>>
    /\ wall = 0
    /\ onlineReport = NoReport

\* The registry on its own: records written with or without a heartbeat
\* stamp, queried as time passes.
RegistryData ==
    {d \in MinerData({None, Some(wall)}) :
        d.stake = 1000 /\ d.is_active /\ d.miner_url = None}

RegistryNext ==
    \/ \E h \in Miners, d \in RegistryData : UpdateMiner(h, d)
    \/ ClearCache
    \/ \E h \in Miners : IsMinerOnline(h)
    \/ GetOnlineMiners
    \/ \E d \in HeartbeatSteps : WallAdvance(d)

-----------------------------------------------------------------------------
(* Task assignment (MinerSelector, TaskDispatcher._assign_task_to_miners)  *)

SelectCount == 10       \* select_miners(task.workflow_id, count=10)
MinStake == 1000        \* select_miners(..., min_stake=1000.0)

AssignWorkflows == {"w1", "w2"}

\* A filter without the stake test.
EligibleHotkeys_AnyStake(c, t) == {h \in get_online_miners(c, t) : c[h].is_active}

\* select_miners: the online records that pass the stake and activity tests.
EligibleHotkeys(c, t) ==
    {h \in get_online_miners(c, t) : c[h].stake >= MinStake /\ c[h].is_active}

\* select_miners: random.choices draws k = min(count, len(eligible)) entries
\* with replacement; every weight is positive, so every list of that length
\* over the eligible hotkeys can be returned.
Selections(eligible) ==
    LET k == IF SelectCount < Cardinality(eligible) THEN SelectCount
             ELSE Cardinality(eligible)
    IN [1..k -> eligible]

\* The existing_assignment query of assign_task_to_miners.
existing_assignment_never(rows, workflow_id, miner_hotkey) == FALSE

existing_assignment(rows, workflow_id, miner_hotkey) ==
    \E r \in DOMAIN rows :
        /\ rows[r].workflow_id = workflow_id
        /\ rows[r].miner_hotkey = miner_hotkey

\* MinerSelector._get_miner_url: the address kept by the registry (the Miner
\* rows hold no address and the chain lists none).
MinerUrlOf(c, miner_hotkey) ==
    IF miner_hotkey \in DOMAIN c THEN c[miner_hotkey].miner_url ELSE None

RECURSIVE RunAssignLoop(_, _, _, _, _)
\* The loop of assign_task_to_miners from the entry at position call.i up to
\* the next POST (where the coroutine is suspended) or the end of the list:
\* <<call, TaskAssignment table, delivery attempts>>.
RunAssignLoop(call, rows, dl, mr, c) ==
    IF call.i > Len(call.miner_hotkeys)
    THEN <<[call EXCEPT !.pc = "returned"], rows, dl>>
    ELSE LET miner_hotkey == call.miner_hotkeys[call.i]
             next == [call EXCEPT !.i = @ + 1]
         IN IF miner_hotkey \notin mr
            THEN RunAssignLoop(next, rows, dl, mr, c)
            ELSE IF existing_assignment(rows, call.workflow_id, miner_hotkey)
            THEN RunAssignLoop([next EXCEPT !.results = Put(@, miner_hotkey, FALSE)],
                               rows, dl, mr, c)
            ELSE LET added == Append(rows, [workflow_id |-> call.workflow_id,
                                            miner_hotkey |-> miner_hotkey,
                                            status |-> "assigned"])
                 IN IF IsSet(MinerUrlOf(c, miner_hotkey))
                    THEN <<[call EXCEPT !.pc = "posting", !.row = Len(added)],
                           added,
                           Append(dl, <<call.workflow_id, miner_hotkey>>)>>
                    ELSE RunAssignLoop(
                             [next EXCEPT !.results = Put(@, miner_hotkey, TRUE)],
                             [added EXCEPT ![Len(added)].status = "pending"],
                             dl, mr, c)

\* TaskDispatcher._assign_task_to_miners for a task: select_miners (which
\* stores a Miner row for every eligible hotkey that has none), then
\* assign_task_to_miners up to its first POST.
AssignStart(workflow_id) ==
    /\ Len(assignCalls) < MaxCalls
    /\ LET eligible == EligibleHotkeys(cache, wall)
           mr == miner_rows \cup eligible
       IN /\ miner_rows' = mr
          /\ onlineReport' = [op |-> "get_online_miners", asked |-> DOMAIN cache,
                              at |-> wall, online |-> get_online_miners(cache, wall)]
          /\ \E selected_miners \in Selections(eligible) :
                IF selected_miners = <<>>
                THEN UNCHANGED <<assignCalls, assignments, deliveries>>
                ELSE LET call == [workflow_id |-> workflow_id,
                                  miner_hotkeys |-> selected_miners,
                                  i |-> 1, pc |-> "loop", row |-> 0,
                                  posts |-> <<>>, response |-> "none",
                                  results |-> <<>>]
                         r == RunAssignLoop(call, assignments, deliveries, mr, cache)
                     IN /\ assignCalls' = Append(assignCalls, r[1])
                        /\ assignments' = r[2]
                        /\ deliveries' = r[3]
    /\ UNCHANGED <<cache, wall, lastSelect, lastDelivery, valVars, lifeVars,
                   schedVars, auditVars, aggVars>>

\* The POSTs of a suspended call return: ok when one of the two endpoints
\* answered 200.  The row's status is updated and the loop goes on to its
\* next suspension.  (The two POSTs of one delivery are taken as one step;
\* nothing the call reads changes between them.)
AssignResponse(k, ok) ==
    /\ k \in DOMAIN assignCalls
    /\ assignCalls[k].pc = "posting"
    /\ LET call == assignCalls[k]
           miner_hotkey == call.miner_hotkeys[call.i]
           updated == [assignments EXCEPT ![call.row].status =
                          IF ok THEN "delivered" ELSE "failed"]
           next == [call EXCEPT !.i = @ + 1, !.pc = "loop",
                                !.results = Put(@, miner_hotkey, ok)]
           r == RunAssignLoop(next, updated, deliveries, miner_rows, cache)
       IN /\ assignCalls' = [assignCalls EXCEPT ![k] = r[1]]
          /\ assignments' = r[2]
          /\ deliveries' = r[3]
    /\ UNCHANGED <<miner_rows, lastSelect, lastDelivery, regVars, valVars, lifeVars,
                   schedVars, auditVars, aggVars>>

\* The endpoints assign_task_to_miners tries, in order.
Endpoints == <<"/v1/train", "/v1/workflows/receive">>

\* What one POST does: it returns a response with status 200 or with
\* another status, or it raises.
PostOutcomes == {"200", "500", "raised"}

\* A loop over the endpoints without the break.
LoopEnds_NoBreak(endpoint, outcome) == endpoint = Len(Endpoints)

\* The endpoint loop is left by the break after a 200 or after the last
\* endpoint.
LoopEnds(endpoint, outcome) == outcome = "200" \/ endpoint = Len(Endpoints)

\* The variable response after a POST: assigned when client.post returns,
\* left as it was when it raises ("none" stands for None).
ResponseAfter(response, outcome) == IF outcome = "raised" THEN response ELSE outcome

\* The status stored after the endpoint loop.
DeliveryStatus(response) == IF response = "200" THEN "delivered" ELSE "failed"

NoDelivery == [row |-> 0, posts |-> <<>>]

\* One POST of a suspended call returns or raises.  Unless the endpoint loop
\* ends, the call goes on to the next endpoint; when it ends, the row's
\* status is updated and the loop over the workers goes on to its next
\* suspension.  The call's posts are the POSTs made so far for the worker at
\* hand, each with its endpoint and outcome; lastDelivery keeps those of the
\* delivery that ended.
PostResponse(k, outcome) ==
    /\ k \in DOMAIN assignCalls
    /\ assignCalls[k].pc = "posting"
    /\ LET call == assignCalls[k]
           miner_hotkey == call.miner_hotkeys[call.i]
           response == ResponseAfter(call.response, outcome)
           posts == Append(call.posts, <<Endpoints[Len(call.posts) + 1], outcome>>)
       IN IF ~LoopEnds(Len(posts), outcome)
          THEN /\ assignCalls' = [assignCalls EXCEPT ![k] =
                                     [call EXCEPT !.posts = posts,
                                                  !.response = response]]
               /\ UNCHANGED <<assignments, deliveries, lastDelivery>>
          ELSE LET updated == [assignments EXCEPT ![call.row].status =
                                  DeliveryStatus(response)]
                   next == [call EXCEPT !.i = @ + 1, !.pc = "loop",
                                        !.posts = <<>>, !.response = "none",
                                        !.results = Put(@, miner_hotkey,
                                                        response = "200")]
                   r == RunAssignLoop(next, updated, deliveries, miner_rows, cache)
               IN /\ assignCalls' = [assignCalls EXCEPT ![k] = r[1]]
                  /\ assignments' = r[2]
                  /\ deliveries' = r[3]
                  /\ lastDelivery' = [row |-> call.row, posts |-> posts]
    /\ UNCHANGED <<miner_rows, lastSelect, regVars, valVars, lifeVars, schedVars,
                   auditVars, aggVars>>

\* select_miners with the default min_stake: the lists it may return.  With
\* count None it returns the eligible hotkeys in the order of the registry's
\* dict, which the model does not keep: any order, each hotkey once.
select_miners(c, t, count) ==
    LET eligible == EligibleHotkeys(c, t)
        n == Cardinality(eligible)
    IN IF eligible = {} THEN {<<>>}
       ELSE IF count = None
       THEN {s \in [1..n -> eligible] : \A i, j \in 1..n : i # j => s[i] # s[j]}
       ELSE [1..(IF Val(count) < n THEN Val(count) ELSE n) -> eligible]

NoSelect == [count |-> None, at |-> 0, result |-> <<>>]

\* TaskDispatcher.select_miners_for_task (the call publish_task makes after
\* the task is stored); select_miners stores a Miner row for every eligible
\* hotkey that has none.
SelectMiners(count) ==
    /\ miner_rows' = miner_rows \cup EligibleHotkeys(cache, wall)
    /\ onlineReport' = [op |-> "get_online_miners", asked |-> DOMAIN cache,
                        at |-> wall, online |-> get_online_miners(cache, wall)]
    /\ \E result \in select_miners(cache, wall, count) :
          lastSelect' = [count |-> count, at |-> wall, result |-> result]
    /\ UNCHANGED <<cache, wall, assignments, deliveries, assignCalls, lastDelivery,
                   valVars, lifeVars, schedVars, auditVars, aggVars>>

SelInit ==
    /\ miner_rows = {}
    /\ assignments = <<>>
    /\ deliveries = <<>>
    /\ assignCalls = <<>>
    /\ lastSelect = NoSelect
    /\ lastDelivery = NoDelivery

\* The health checker's cache writes for workers that answered the
\* heartbeat request.
OnlineData ==
    {d \in MinerData({Some(wall)}) : d.is_online /\ d.is_active /\ d.stake = 1000}

\* The records written for workers with any stake, activity and online
\* flag, stamped with the time of the write.
PickData == {d \in MinerData({Some(wall)}) : d.miner_url = None}

\* The values of count: unspecified, fewer than the workers, the default.
Counts == {None, Some(1), Some(SelectCount)}

\* Registry writes, the passage of more than half a heartbeat timeout, and
\* selections.
PickNext ==
    \/ \E h \in Miners, d \in PickData : UpdateMiner(h, d)
    \/ WallAdvance(61)
    \/ \E count \in Counts : SelectMiners(count)

SelectNext ==
    \/ \E h \in Miners, d \in OnlineData : UpdateMiner(h, d)
    \/ \E w \in AssignWorkflows : AssignStart(w)
    \/ \E k \in DOMAIN assignCalls, ok \in BOOLEAN : AssignResponse(k, ok)

\* Registry writes, assignments of one task and the POSTs one by one.
DeliverNext ==
    \/ \E h \in Miners, d \in OnlineData : UpdateMiner(h, d)
    \/ AssignStart("w1")
    \/ \E k \in DOMAIN assignCalls, outcome \in PostOutcomes : PostResponse(k, outcome)

-----------------------------------------------------------------------------
(* Publish validation (TaskValidator, the validation block of publish_task) *)
(* A dict is a function on its keys; an error list is a sequence of        *)
(* messages (interpolated values are left out of the messages).            *)

\* dict.get(key) as an optional value.
Get(d, k) == IF k \in DOMAIN d THEN Some(d[k]) ELSE None

RECURSIVE MissingFields(_, _, _)
\* The "for field in required_fields" loops: one message per missing field.
MissingFields(d, required_fields, message) ==
    IF required_fields = <<>> THEN <<>>
    ELSE (IF Head(required_fields) \notin DOMAIN d
          THEN <<message \o Head(required_fields)>> ELSE <<>>)
         \o MissingFields(d, Tail(required_fields), message)

\* A list with one message when the condition holds.
ErrorIf(cond, message) == IF cond THEN <<message>> ELSE <<>>

SpecRequiredFields ==
    <<"theme", "target_platform", "deployment_target", "training_mode",
      "dataset_spec", "training_spec">>

TrainingRequiredFields ==
    <<"base_model", "lora_rank", "lora_alpha", "iteration_count", "batch_size">>

DatasetRequiredFields == <<"source", "repository_id">>

\* The range tests of _validate_training_spec on one optional integer.
OutOfRange(v, lo, hi) == ~IsSet(v) \/ Val(v) < lo \/ Val(v) > hi

\* TaskValidator._validate_training_spec.  The requests of the model carry
\* no learning_rate and no resolution, whose tests apply only when present.
validate_training_spec(training_spec, target_platform) ==
    LET missing == MissingFields(training_spec, TrainingRequiredFields,
                                 "Missing required training_spec field: ")
        batch_size == Get(training_spec, "batch_size")
    IN IF missing # <<>> THEN missing
       ELSE ErrorIf(Get(training_spec, "base_model") \in {None, Some("")},
                    "base_model must be a non-empty string")
            \o ErrorIf(OutOfRange(Get(training_spec, "lora_rank"), 1, 128),
                       "lora_rank must be an integer between 1 and 128")
            \o ErrorIf(OutOfRange(Get(training_spec, "lora_alpha"), 1, 256),
                       "lora_alpha must be an integer between 1 and 256")
            \o ErrorIf(OutOfRange(Get(training_spec, "iteration_count"), 100, 10000),
                       "iteration_count must be an integer between 100 and 10000")
            \o ErrorIf(~IsSet(batch_size) \/ Val(batch_size) < 1,
                       "batch_size must be a positive integer")
            \o (IF target_platform = "mobile"
                THEN ErrorIf(Val(batch_size) > 8,
                             "batch_size for mobile (text) tasks should not exceed 8")
                ELSE IF target_platform = "executor"
                THEN ErrorIf(Val(batch_size) > 2,
                             "batch_size for executor (image) tasks should not exceed 2")
                ELSE <<>>)

\* TaskValidator._validate_dataset_spec.  The requests of the model carry no
\* sample_count, whose test applies only when present.
validate_dataset_spec(dataset_spec, target_platform) ==
    LET missing == MissingFields(dataset_spec, DatasetRequiredFields,
                                 "Missing required dataset_spec field: ")
    IN IF missing # <<>> THEN missing
       ELSE ErrorIf(Get(dataset_spec, "source") # Some("huggingface"),
                    "dataset source must be 'huggingface'")
            \o ErrorIf(Get(dataset_spec, "repository_id") \in {None, Some("")},
                       "repository_id must be a non-empty string")
            \o (IF target_platform = "mobile"
                THEN ErrorIf(Get(dataset_spec, "data_format") # Some("jsonl"),
                             "data_format for text tasks must be 'jsonl'")
                     \o ErrorIf(\/ "question_column" \notin DOMAIN dataset_spec
                                \/ "answer_column" \notin DOMAIN dataset_spec,
                                "text tasks require question_column and answer_column in dataset_spec")
                ELSE IF target_platform = "executor"
                THEN ErrorIf(\/ "image_column" \notin DOMAIN dataset_spec
                             \/ "caption_column" \notin DOMAIN dataset_spec,
                             "image tasks require image_column and caption_column in dataset_spec")
                ELSE <<>>)

\* TaskValidator.validate_workflow_spec: the error list (valid iff empty).
validate_workflow_spec(workflow_spec) ==
    LET missing == MissingFields(workflow_spec, SpecRequiredFields,
                                 "Missing required field: ")
        training_mode == Get(workflow_spec, "training_mode")
        base_lora_url == Get(workflow_spec, "base_lora_url")
    IN IF missing # <<>> THEN missing
       ELSE ErrorIf(training_mode \notin {Some("new"), Some("incremental")},
                    "Invalid training_mode")
            \o (IF training_mode = Some("incremental")
                THEN IF base_lora_url \in {None, Some(None), Some("")}
                     THEN <<"base_lora_url is required for incremental training">>
                     ELSE ErrorIf(Val(base_lora_url) \notin {"http://base", "https://base"},
                                  "base_lora_url must be a valid HTTP/HTTPS URL")
                ELSE <<>>)
            \o validate_training_spec(workflow_spec.training_spec,
                                      workflow_spec.target_platform)
            \o validate_dataset_spec(workflow_spec.dataset_spec,
                                     workflow_spec.target_platform)

\* The duration loop of validate_task_create.
DurationMessages(task_data) ==
    ErrorIf(task_data.announcement_duration < 0,
            "announcement_duration must be a non-negative number")
    \o ErrorIf(task_data.execution_duration < 0,
               "execution_duration must be a non-negative number")
    \o ErrorIf(task_data.review_duration < 0,
               "review_duration must be a non-negative number")

\* TaskValidator.validate_task_create: the error list (valid iff empty).
validate_task_create(task_data) ==
    ErrorIf(task_data.workflow_id = "", "workflow_id is required and must be a string")
    \o ErrorIf(task_data.workflow_type \notin WorkflowTypes, "Invalid workflow_type")
    \o (IF task_data.workflow_spec = <<>> THEN <<"workflow_spec is required">>
        ELSE validate_workflow_spec(task_data.workflow_spec))
    \o DurationMessages(task_data)

\* The validation block of publish_task: the messages of the HTTP 400 detail,
\* empty when the request passes.  The workflow spec is validated first and
\* its errors are returned on their own.
publish_validation(task_data) ==
    LET spec_errors == IF task_data.workflow_spec # <<>>
                       THEN validate_workflow_spec(task_data.workflow_spec)
                       ELSE <<>>
    IN IF spec_errors # <<>> THEN spec_errors
       ELSE validate_task_create(task_data)

\* publish_task up to the end of its validation block.
ValidatePublish(task_data) ==
    /\ lastRequest' = Some(task_data)
    /\ lastErrors' = publish_validation(task_data)
    /\ UNCHANGED <<regVars, selVars, lifeVars, schedVars, auditVars, aggVars>>

\* A training_spec and a dataset_spec that pass validation for a text task.
GoodTrainingSpec ==
    [base_model |-> "base", lora_rank |-> 8, lora_alpha |-> 16,
     iteration_count |-> 1000, batch_size |-> 4]

GoodDatasetSpec ==
    [source |-> "huggingface", repository_id |-> "org/data", data_format |-> "jsonl",
     question_column |-> "q", answer_column |-> "a"]

TrainingSpecs ==
    {GoodTrainingSpec,
     [GoodTrainingSpec EXCEPT !.lora_rank = 0],
     Pop(GoodTrainingSpec, "base_model"),
     Pop([GoodTrainingSpec EXCEPT !.lora_rank = 0], "base_model")}

DatasetSpecs == {GoodDatasetSpec, [GoodDatasetSpec EXCEPT !.source = "local"]}

\* The publish requests of the validation scenario.  The WorkflowSpec schema
\* makes the six top-level fields of workflow_spec always present.
ValidationRequests ==
    {[workflow_id |-> "w1", workflow_type |-> ty,
      workflow_spec |-> [theme |-> "t", target_platform |-> "mobile",
                         deployment_target |-> "phone", training_mode |-> mode,
                         dataset_spec |-> ds, training_spec |-> ts,
                         base_lora_url |-> None],
      announcement_duration |-> ad, execution_duration |-> ed,
      review_duration |-> 1, reward_duration |-> 1] :
        ty \in RequestTypes, mode \in {"new", "renew"}, ds \in DatasetSpecs,
        ts \in TrainingSpecs, ad \in {0 - 1, 1}, ed \in {0 - 1, 1}}

ValInit ==
    /\ lastRequest = None
    /\ lastErrors = <<>>

ValidateNext == \E r \in ValidationRequests : ValidatePublish(r)

CenterInit ==
    /\ RegInit
    /\ SelInit
    /\ ValInit

-----------------------------------------------------------------------------
(* The task center's audit and reward flow *)

\* The publish requests of the audit and reward scenarios: the first three
\* phases last one day each.
AuditTaskCreate ==
    {d \in TaskCreate :
        /\ d.workflow_type \in WorkflowTypes
        /\ d.announcement_duration = 1
        /\ d.execution_duration = 1
        /\ d.review_duration = 1
        /\ d.reward_duration \in {0, 1}}

\* The text task of the reward scenarios.
TextRequest ==
    [workflow_type |-> "text_lora_creation", publish_status |-> "published",
     announcement_duration |-> 1, execution_duration |-> 1,
     review_duration |-> 1, reward_duration |-> 1]

AuditStatuses == {"completed", "failed"}

\* The audit table after receive_miner_submission for the first worker with
\* every chain node active: the template and ValidatorsPerTask clones.
FirstSubmissionAudits ==
    auto_assign_audit_tasks(<<AuditRow("w1", "m1", None)>>, <<>>, "w1", Validators)[1]

\* Construction, publication, the first submission and the completion of
\* audit rows, without score reports.
SetupNext ==
    \/ \E w \in WorkflowIds, d \in AuditTaskCreate : CreateTask(w, d)
    \/ LifecycleTick
    \/ AdvanceTime
    \/ \E w \in WorkflowIds : ReceiveMinerSubmission(w, "m1", Validators)
    \/ \E a \in 1..MaxAudits, st \in AuditStatuses : UpdateAuditTaskStatus(a, st, None)

\* A task, draft or published, stored at time 0, whose first worker has
\* submitted and whose three clones were completed at once.
PhaseInit ==
    /\ now = 0
    /\ \E d \in {r \in AuditTaskCreate : r.workflow_type = "text_lora_creation"} :
          tasks = ("w1" :> TaskRow(IF d.publish_status = "draft" THEN "pending"
                                   ELSE "announcement",
                                   d.publish_status, d.workflow_type,
                                   IF d.publish_status = "draft" THEN NoBoundaries
                                   ELSE Boundaries(0, d)))
    /\ lastPublish = [workflow_id |-> "w1", outcome |-> "created"]
    /\ SchedInit
    /\ audits = [a \in DOMAIN FirstSubmissionAudits |->
                   IF FirstSubmissionAudits[a].validator_hotkey = None
                   THEN FirstSubmissionAudits[a]
                   ELSE [FirstSubmissionAudits[a] EXCEPT
                            !.is_completed = TRUE, !.completed_at = Some(a - 1)]]
    /\ validators = [v \in Validators |-> 0]
    /\ submissions = (<<"w1", "m1">> :> 0)
    /\ scores = EmptyBag
    /\ rewards = {}
    /\ clock = ValidatorsPerTask
    /\ lastCall = NoCall
    /\ trigCount = [m \in Miners |-> 0]
    /\ AggInit
    /\ CenterInit

\* Score reports while the task moves through its phases.
PhaseNext ==
    \/ \E w \in WorkflowIds, d \in AuditTaskCreate : PublishTask(w, d)
    \/ LifecycleTick
    \/ AdvanceTime
    \/ \E w \in WorkflowIds, m \in Miners, v \in Scorers, s \in ScoreValues,
          e \in Emissions : SubmitScore(w, m, v, s, e)

\* The state in which a text task published at time 0 has entered its
\* execution phase and the first worker's submission has been received and
\* auto-assigned to ValidatorsPerTask auditors.
RewardInit ==
    /\ now = 1
    /\ tasks = ("w1" :> TaskRow("execution", "published", "text_lora_creation",
                                Boundaries(0, TextRequest)))
    /\ lastPublish = [workflow_id |-> "w1", outcome |-> "created"]
    /\ SchedInit
    /\ audits = FirstSubmissionAudits
    /\ validators = [v \in Validators |-> 0]
    /\ submissions = (<<"w1", "m1">> :> 1)
    /\ scores = EmptyBag
    /\ rewards = {}
    /\ clock = 0
    /\ lastCall = NoCall
    /\ trigCount = [m \in Miners |-> 0]
    /\ AggInit
    /\ CenterInit

\* Audit completions and score reports during the execution phase.
RewardNext ==
    \/ \E a \in 1..MaxAudits, st \in AuditStatuses : UpdateAuditTaskStatus(a, st, None)
    \/ \E w \in WorkflowIds, m \in Miners, v \in Scorers, s \in ScoreValues,
          e \in Emissions : SubmitScore(w, m, v, s, e)

\* The state in which a text task published at time 0 has entered its
\* execution phase and no worker has submitted yet.
QuorumInit ==
    /\ now = 1
    /\ tasks = ("w1" :> TaskRow("execution", "published", "text_lora_creation",
                                Boundaries(0, TextRequest)))
    /\ lastPublish = [workflow_id |-> "w1", outcome |-> "created"]
    /\ SchedInit
    /\ AuditInit
    /\ AggInit
    /\ CenterInit

\* The sets of nodes the chain reports as active while the nodes register
\* one after another.
ActiveSets == {{ChainNodes[i] : i \in 1..n} : n \in 0..Len(ChainNodes)}

\* Submissions while the chain's nodes become active, and audit completions.
QuorumNext ==
    \/ \E w \in WorkflowIds, m \in Miners, active \in ActiveSets :
          ReceiveMinerSubmission(w, m, active)
    \/ \E a \in 1..MaxAudits : UpdateAuditTaskStatus(a, "completed", None)

\* Submissions while the chain's nodes become active, and the completion of
\* assigned audits.
RankNext ==
    \/ \E w \in WorkflowIds, m \in Miners, active \in ActiveSets :
          ReceiveMinerSubmission(w, m, active)
    \/ \E a \in DOMAIN audits :
          /\ audits[a].validator_hotkey # None
          /\ ~audits[a].is_completed
          /\ UpdateAuditTaskStatus(a, "completed", None)

AssignNext ==
    \/ \E w \in WorkflowIds, d \in AuditTaskCreate : CreateTask(w, d)
    \/ \E w \in WorkflowIds, m \in Miners, active \in SUBSET Validators :
          ReceiveMinerSubmission(w, m, active)
    \/ \E a \in 1..MaxAudits, v \in Validators : ReceiveAuditTask(a, v)

NoRequest == [workflow_id |-> "", outcome |-> "none"]

LifeInit ==
    /\ now = 0
    /\ tasks = <<>>
    /\ lastPublish = NoRequest

Init ==
    /\ LifeInit
    /\ SchedInit
    /\ AuditInit
    /\ AggInit
    /\ CenterInit

Next ==
    \/ AdvanceTime
    \/ LifecycleTick
    \/ \E w \in WorkflowIds, d \in TaskCreate : CreateTask(w, d)
    \/ \E w \in WorkflowIds, d \in TaskCreate : PublishInvalid(w, d)
    \/ \E w \in WorkflowIds, d \in TaskCreate : PublishUnknown(w, d)
    \/ \E w \in WorkflowIds, d \in TaskCreate : PublishAgain(w, d)
    \/ \E w \in WorkflowIds, d \in TaskCreate : PublishTask(w, d)

Spec == Init /\ [][Next]_vars

\* The lifecycle loop keeps ticking and time passes.
SpecLifeLive ==
    /\ Init
    /\ [][Next]_vars
    /\ WF_vars(LifecycleTick)
    /\ WF_vars(AdvanceTime)

SpecSched == Init /\ [][SchedNext]_vars

\* The scheduler loop keeps ticking and a created coroutine gets to run; how
\* long a training takes is not bounded.
SpecSchedLive ==
    /\ Init
    /\ [][SchedNext]_vars
    /\ WF_vars(ProcessQueue)
    /\ \A o \in 1..MaxJobs : WF_vars(ExecuteStart(o))

\* Accepted requests of one training type and of an unknown type (the two
\* training types are classified and scheduled alike), ticks and executions.
EndsTypes == {"text_lora_creation", "video_lora_creation"}

EndsNext ==
    \/ \E j \in JobIds, t \in EndsTypes : EnqueueTask(j, t)
    \/ ProcessQueue
    \/ \E o \in DOMAIN execs : ExecuteStart(o)
    \/ \E o \in DOMAIN execs, ok \in BOOLEAN : ExecuteFinish(o, ok)

\* The scheduler loop keeps ticking, a created coroutine gets to run and
\* every execution returns or raises.
SpecSchedEnds ==
    /\ Init
    /\ [][EndsNext]_vars
    /\ WF_vars(ProcessQueue)
    /\ \A o \in 1..MaxJobs : WF_vars(ExecuteStart(o))
    /\ \A o \in 1..MaxJobs : WF_vars(\E ok \in BOOLEAN : ExecuteFinish(o, ok))

SpecSetup == Init /\ [][SetupNext]_vars

SpecPhase == PhaseInit /\ [][PhaseNext]_vars

SpecReward == RewardInit /\ [][RewardNext]_vars

SpecAssign == Init /\ [][AssignNext]_vars

SpecQuorum == QuorumInit /\ [][QuorumNext]_vars

SpecRank == QuorumInit /\ [][RankNext]_vars

SpecAgg == Init /\ [][AggNext]_vars

SpecRegistry == Init /\ [][RegistryNext]_vars

SpecSelect == Init /\ [][SelectNext]_vars

SpecDeliver == Init /\ [][DeliverNext]_vars

SpecValidate == Init /\ [][ValidateNext]_vars

SpecPick == Init /\ [][PickNext]_vars

-----------------------------------------------------------------------------
(* Lifecycle properties *)

\* C1: no step moves a stored task to an earlier status of the order
\* Draft, Announcement, Execution, Review, Reward, Ended (and no step removes
\* a task), whatever the interleaving of ticks and publish requests.
LifecycleMonotone ==
    [][\A w \in DOMAIN tasks :
          /\ w \in DOMAIN tasks'
          /\ Rank(tasks'[w].status) >= Rank(tasks[w].status)]_vars

\* A publish request has hit a task that is past Announcement and left it there.
LifecycleMonotoneWitness ==
    \E w \in DOMAIN tasks :
        /\ Rank(tasks[w].status) > Rank("announcement")
        /\ lastPublish = [workflow_id |-> w, outcome |-> "already_published"]

\* C10: the boundaries of every stored task that has them are non-decreasing
\* in phase order.
BoundariesMonotone ==
    \A w \in DOMAIN tasks :
        IsSet(tasks[w].announcement_start) =>
            /\ Val(tasks[w].announcement_start) <= Val(tasks[w].execution_start)
            /\ Val(tasks[w].execution_start) <= Val(tasks[w].review_start)
            /\ Val(tasks[w].review_start) <= Val(tasks[w].reward_start)
            /\ Val(tasks[w].reward_start) <= Val(tasks[w].workflow_end)

-----------------------------------------------------------------------------
(* Scheduler properties *)

\* The training-class jobs that are executing (between registration and the
\* "finally" block of _execute_task).
ExecutingTraining ==
    {o \in DOMAIN execs : execs[o].pc = "training" /\ jobs[o].task_type \in TrainingTypes}

\* C5: the jobs holding an accelerator slot are at most as many as the slots,
\* no two of them hold the same slot, and every held slot is marked taken.
SlotCapacity ==
    /\ Cardinality(DOMAIN execs) <= GpuCount
    /\ \A o1, o2 \in DOMAIN execs : o1 # o2 => execs[o1].gpu # execs[o2].gpu
    /\ \A o \in DOMAIN execs : ~gpus[execs[o].gpu].available

\* Every slot is held by an executing job while another job waits in a lane.
SlotCapacityWitness ==
    /\ Cardinality(DOMAIN execs) = GpuCount
    /\ get_available_gpu_count = 0
    /\ get_total_queue_size > 0

\* C6: the training-class jobs executing concurrently never exceed
\* max_training_jobs.
TrainingCap == Cardinality(ExecutingTraining) <= MaxTrainingJobs

-----------------------------------------------------------------------------
(* Audit, score and reward properties *)

\* The reward rows stored for a task.
RewardsOf(w) == {r \in rewards : r.workflow_id = w}

\* C2: once the ledger holds reward rows of a distribution round of a task,
\* no later trigger adds a row of that round for the task.
RoundIdempotent ==
    [][\A r \in rewards' \ rewards :
          \A old \in rewards :
              ~(/\ old.workflow_id = r.workflow_id
                /\ old.distribution_round = r.distribution_round)]_vars

\* C3: for every worker at most one score submission calls the distributor:
\* the one at which the completed clones first number QuorumSize.
QuorumGating == \A m \in Miners : trigCount[m] <= 1

\* C4: the reward amounts recorded for a task add up to the pool of its
\* type for the emission that was distributed.
RewardConservation ==
    \A w \in DOMAIN tasks :
        RewardsOf(w) # {} =>
            \E e \in Emissions \ {0} :
                RSum({<<r, r.reward_amount>> : r \in RewardsOf(w)})
                    = task_pool(tasks[w].workflow_type, e)

\* C7: a step adds a reward row only for a task that is in its execution or
\* review phase when the step starts; a distributor call in any other phase
\* leaves the ledger as it was.
RewardOnlyInExecutionOrReview ==
    [][/\ \A r \in rewards' \ rewards :
             StatusOf(r.workflow_id) \in {"execution", "review"}
       /\ (lastCall' # lastCall /\ lastCall'.status \notin {"execution", "review"})
             => rewards' = rewards]_vars

\* The distributor was called in the reward phase of a task that was paid
\* earlier, and wrote nothing.
RewardOnlyInExecutionOrReviewWitness ==
    /\ lastCall.status = "reward"
    /\ lastCall.outcome = "skipped_phase"
    /\ lastCall.added = 0
    /\ rewards # {}

\* The clones of a (task, worker) pair that have an auditor.
AssignedClones(w, m) ==
    {a \in AuditsOf(audits, w, m) : audits[a].validator_hotkey # None}

\* C8: no (task, worker) pair has more than QuorumSize clones with an
\* auditor.
AssignedClonesAtMostQuorum ==
    \A w \in WorkflowIds, m \in Miners :
        Cardinality(AssignedClones(w, m)) <= QuorumSize

\* The lowest and the highest value of a non-empty list.
MinOf(s) == CHOOSE x \in {s[i] : i \in DOMAIN s} : \A i \in DOMAIN s : x <= s[i]
MaxOf(s) == CHOOSE x \in {s[i] : i \in DOMAIN s} : \A i \in DOMAIN s : x >= s[i]

\* The aggregate the rule prescribes for a non-empty list of scores.
PrescribedAggregate(s) ==
    IF Len(s) >= 3 THEN Rat(SeqSum(s) - MinOf(s) - MaxOf(s), Len(s) - 2)
    ELSE Rat(SeqSum(s), Len(s))

\* C9: with three or more scores both aggregations give the mean of what is
\* left after dropping one lowest and one highest score, with one or two
\* scores the plain mean.
TrimmedMean ==
    IsSet(aggregated) =>
        /\ Val(aggregated).average_score = PrescribedAggregate(final_scores)
        /\ Val(aggregated).miner_aggregated = PrescribedAggregate(final_scores)

\* The scores 2, 8, 9 were aggregated to 8.
TrimmedMeanWitness ==
    /\ final_scores = <<2, 8, 9>>
    /\ aggregated = Some([average_score |-> Rat(8, 1),
                          miner_aggregated |-> Rat(8, 1)])

-----------------------------------------------------------------------------
(* Registry and assignment properties *)

AssignmentRows(w, m) ==
    {r \in DOMAIN assignments :
        assignments[r].workflow_id = w /\ assignments[r].miner_hotkey = m}

DeliveryAttempts(w, m) == {a \in DOMAIN deliveries : deliveries[a] = <<w, m>>}

\* C12: however assign_task_to_miners calls repeat or overlap, and whatever
\* workers a selection repeats, a (task, worker) pair has at most one
\* assignment row and at most one delivery attempt.
AssignmentIdempotent ==
    \A w \in AssignWorkflows, m \in Miners :
        /\ Cardinality(AssignmentRows(w, m)) <= 1
        /\ Cardinality(DeliveryAttempts(w, m)) <= 1

\* A call is suspended in the delivery to a worker while an overlapping call
\* for the same task, whose selection names that worker twice, has skipped it.
AssignmentIdempotentWitness ==
    \E k1, k2 \in DOMAIN assignCalls :
        /\ k1 # k2
        /\ assignCalls[k1].workflow_id = assignCalls[k2].workflow_id
        /\ assignCalls[k1].pc = "posting"
        /\ assignCalls[k2].pc = "returned"
        /\ LET m == assignCalls[k1].miner_hotkeys[assignCalls[k1].i]
           IN /\ assignCalls[k2].miner_hotkeys = <<m, m>>
              /\ m \in DOMAIN assignCalls[k2].results
              /\ ~assignCalls[k2].results[m]
              /\ Cardinality(AssignmentRows(assignCalls[k1].workflow_id, m)) = 1

-----------------------------------------------------------------------------
(* Publish validation properties *)

\* The elements of a list.
SeqSet(s) == {s[i] : i \in DOMAIN s}

\* A dict with the keys it lacks taken from another dict.
WithDefaults(d, good) ==
    [k \in DOMAIN good \cup DOMAIN d |-> IF k \in DOMAIN d THEN d[k] ELSE good[k]]

\* Every validation failure of a request: the fields missing from its
\* training_spec and dataset_spec, and every failure found when the request
\* is validated with those fields filled in (invalid field values, an
\* invalid workflow_type, invalid durations).
AllFailures(task_data) ==
    LET ws == task_data.workflow_spec
        filled == [ws EXCEPT
                     !.training_spec = WithDefaults(@, GoodTrainingSpec),
                     !.dataset_spec = WithDefaults(@, GoodDatasetSpec)]
    IN SeqSet(MissingFields(ws.training_spec, TrainingRequiredFields,
                            "Missing required training_spec field: "))
       \cup SeqSet(MissingFields(ws.dataset_spec, DatasetRequiredFields,
                                 "Missing required dataset_spec field: "))
       \cup SeqSet(validate_task_create([task_data EXCEPT !.workflow_spec = filled]))

\* C16: the error list of a rejected publish request holds every validation
\* failure of the request.
RejectionListsAllFailures ==
    (IsSet(lastRequest) /\ lastErrors # <<>>) =>
        SeqSet(lastErrors) = AllFailures(Val(lastRequest))

-----------------------------------------------------------------------------
(* Queue properties *)

\* The jobs waiting in the three lanes.
QueuedTotal ==
    Len(high_priority_queue) + Len(medium_priority_queue) + Len(low_priority_queue)

\* C13: the lanes never hold more than max_queue_size jobs; a job is
\* accepted only while they hold fewer, and an enqueue_task rejected as
\* "queue full" finds max_queue_size jobs or more and leaves the three
\* lanes as they were.
QueueCap ==
    /\ [](QueuedTotal <= MaxQueueSize)
    /\ [][/\ Len(jobs') > Len(jobs) => QueuedTotal < MaxQueueSize
          /\ (lastEnqueue' = "queue_full" /\ lastEnqueue # "queue_full") =>
                /\ QueuedTotal >= MaxQueueSize
                /\ high_priority_queue' = high_priority_queue
                /\ medium_priority_queue' = medium_priority_queue
                /\ low_priority_queue' = low_priority_queue]_vars

\* The lanes are full, the latest request was rejected, and a blocked job
\* has been requeued behind a job that was enqueued after it.
QueueCapWitness ==
    /\ QueuedTotal = MaxQueueSize
    /\ lastEnqueue = "queue_full"
    /\ \E i, j \in DOMAIN medium_priority_queue :
          i < j /\ medium_priority_queue[i] > medium_priority_queue[j]

\* C20: a non-training job that waits in the low lane while a slot is free
\* is eventually started (or the slots run out), also while a training job
\* of the medium lane is blocked by the training cap.
NoHeadOfLineBlocking ==
    \A o \in 1..MaxJobs :
        (/\ \E i \in DOMAIN low_priority_queue : low_priority_queue[i] = o
         /\ jobs[o].task_type \notin TrainingTypes
         /\ get_available_gpu_count > 0)
        ~> (\/ \A i \in DOMAIN low_priority_queue : low_priority_queue[i] # o
            \/ get_available_gpu_count = 0)

-----------------------------------------------------------------------------
(* Distribution and audit properties *)

\* The score rows of the workers whose aggregated score is at least 3.5.
ScoresAtOrAbove(sc, w) ==
    LET keep == {x \in BagToSet(sc) :
                    \E p \in get_all_scores_for_workflow(sc, w) :
                        p[1] = x.miner_hotkey /\ ~RLess(p[2], Rat(7, 2))}
    IN [x \in keep |-> sc[x]]

\* C14: in every distribution a worker whose aggregated score is below 3.5
\* gets no reward row, the rows written are those of a distribution among
\* the other workers alone, and every worker at or above 3.5 has a strictly
\* positive weight.
BaselineExclusion ==
    [][\A w \in WorkflowIds :
          (trigCount' # trigCount /\ lastCall'.outcome = "distributed") =>
              /\ \A p \in get_all_scores_for_workflow(scores', w) :
                    IF RLess(p[2], Rat(7, 2))
                    THEN \A r \in rewards' \ rewards : r.miner_hotkey # p[1]
                    ELSE RLess(RZero, MinerWeight(w, p[1], p[2]))
              /\ \A r \in rewards' \ rewards :
                    \E e \in Emissions :
                        r \in NewRewardRows(ScoresAtOrAbove(scores', w),
                                            r.distribution_round, w, e)]_vars

\* A distribution wrote a reward row while a worker below the baseline had
\* scores on the task and got nothing.
BaselineExclusionWitness ==
    /\ lastCall.outcome = "distributed"
    /\ lastCall.added > 0
    /\ \E p \in get_all_scores_for_workflow(scores, "w1") :
          /\ RLess(p[2], Rat(7, 2))
          /\ \A r \in rewards : r.miner_hotkey # p[1]

\* C15: no step changes the is_completed flag, the result or the completion
\* timestamp of an audit clone that is completed.
CompletedCloneImmutable ==
    [][\A a \in DOMAIN audits :
          (audits[a].validator_hotkey # None /\ audits[a].is_completed) =>
              /\ audits'[a].is_completed
              /\ audits'[a].result = audits[a].result
              /\ audits'[a].completed_at = audits[a].completed_at]_vars

-----------------------------------------------------------------------------
(* Lifecycle tick properties *)

\* C17: a Draft task changes only in a step that publishes it, and that step
\* puts it in Announcement with announcement_start = now and the other
\* boundaries at now plus the cumulative durations of a valid request.
DraftLeavesOnlyByPublish ==
    [][\A w \in DOMAIN tasks :
          tasks[w].status = "pending" =>
              \/ tasks'[w] = tasks[w]
              \/ /\ lastPublish' = [workflow_id |-> w, outcome |-> "published"]
                 /\ tasks'[w].status = "announcement"
                 /\ tasks'[w].announcement_start = Some(now)
                 /\ \E d \in TaskCreate :
                       /\ ValidateTaskCreate(d)
                       /\ tasks'[w].execution_start =
                              Some(now + d.announcement_duration)
                       /\ tasks'[w].review_start =
                              Some(now + d.announcement_duration
                                       + d.execution_duration)
                       /\ tasks'[w].reward_start =
                              Some(now + d.announcement_duration
                                       + d.execution_duration + d.review_duration)
                       /\ tasks'[w].workflow_end =
                              Some(now + d.announcement_duration
                                       + d.execution_duration + d.review_duration
                                       + d.reward_duration)]_vars

\* A task that stayed a Draft for a day or more has been published.
DraftLeavesOnlyByPublishWitness ==
    \E w \in DOMAIN tasks :
        /\ lastPublish = [workflow_id |-> w, outcome |-> "published"]
        /\ tasks[w].status = "announcement"
        /\ Val(tasks[w].announcement_start) > 0
        /\ Val(tasks[w].workflow_end) > Val(tasks[w].announcement_start)

\* The start boundary of a phase of a published task.
BoundaryOf(t, status) ==
    IF status = "execution" THEN t.execution_start
    ELSE IF status = "review" THEN t.review_start
    ELSE IF status = "reward" THEN t.reward_start
    ELSE t.workflow_end

\* C18: a status change that is not a publish moves the task to the
\* immediate successor of its status, and only when now has reached the
\* start boundary of that successor.
TickStepsToSuccessor ==
    [][\A w \in DOMAIN tasks :
          (tasks'[w].status # tasks[w].status /\ lastPublish' = lastPublish) =>
              /\ tasks[w].status \in ActiveStatuses
              /\ Rank(tasks'[w].status) = Rank(tasks[w].status) + 1
              /\ IsSet(BoundaryOf(tasks[w], tasks'[w].status))
              /\ now >= Val(BoundaryOf(tasks[w], tasks'[w].status))]_vars

\* A tick has moved a task into Execution, and no further, although the
\* start of its Reward phase has passed as well.
TickStepsToSuccessorWitness ==
    \E w \in DOMAIN tasks :
        /\ tasks[w].status = "execution"
        /\ now >= Val(tasks[w].reward_start)
        /\ Val(tasks[w].reward_start) >= Val(tasks[w].review_start)

\* The latest phase whose start boundary is at or before n.
PhaseAt(t, n) ==
    IF n >= Val(t.workflow_end) THEN "ended"
    ELSE IF n >= Val(t.reward_start) THEN "reward"
    ELSE IF n >= Val(t.review_start) THEN "review"
    ELSE IF n >= Val(t.execution_start) THEN "execution"
    ELSE "announcement"

\* C19: a tick that changes a task leaves every published task that is not
\* Ended (and whose boundaries are in phase order) in the phase that now and
\* the task's boundaries determine.
TickReachesCurrentPhase ==
    [][(tasks' # tasks /\ lastPublish' = lastPublish) =>
          \A w \in DOMAIN tasks :
              (/\ tasks'[w].status \in ActiveStatuses
               /\ Val(tasks[w].execution_start) <= Val(tasks[w].review_start)
               /\ Val(tasks[w].review_start) <= Val(tasks[w].reward_start)
               /\ Val(tasks[w].reward_start) <= Val(tasks[w].workflow_end)) =>
                  tasks'[w].status = PhaseAt(tasks'[w], now)]_vars

-----------------------------------------------------------------------------
(* Quorum of the rewarded worker *)

\* C21: every reward row a step writes belongs to a worker that has
\* QuorumSize completed audit clones of the row's task when the step starts;
\* a worker below its own quorum gets no row from a distribution triggered
\* by another worker's quorum.
RewardOnlyWithOwnQuorum ==
    [][\A r \in rewards' \ rewards :
          QuorumReached(r.workflow_id, r.miner_hotkey)]_vars

-----------------------------------------------------------------------------
(* One score per auditor *)

\* The auditors with a score row for (workflow, miner).
ScoringAuditors(sc, w, m) ==
    {r.validator_hotkey :
        r \in {x \in BagToSet(sc) : x.workflow_id = w /\ x.miner_hotkey = m}}

\* C22: the list of final_score values that average_score aggregates for a
\* (task, worker) holds at most one value per distinct auditor, so it has
\* TrimThreshold values, and is trimmed, only with TrimThreshold distinct
\* auditors.
OneScorePerAuditor ==
    \A w \in WorkflowIds, m \in Miners :
        /\ Len(ScoreList(scores, w, m))
              <= Cardinality(ScoringAuditors(scores, w, m))
        /\ Len(ScoreList(scores, w, m)) >= TrimThreshold
              => Cardinality(ScoringAuditors(scores, w, m)) >= TrimThreshold

-----------------------------------------------------------------------------
(* Job execution properties *)

TerminalStatuses == {"completed", "failed"}

\* The status changes of a job object that one step may make.  The first
\* segment of _execute_task sets Processing before it fails on an unknown
\* workflow type, so that step shows Pending -> Failed with started set.
StatusStep(old, new) ==
    \/ new.status = old.status
    \/ old.status = "pending" /\ new.status = "processing"
    \/ old.status = "processing" /\ new.status \in TerminalStatuses
    \/ old.status = "pending" /\ new.status = "failed" /\ new.started

\* C23: a job that holds a slot ends with its slot released, by that job
\* alone, and with status Completed (result set) or Failed (error set) and
\* completed_at set; a slot is released only by the end of the one job that
\* holds it; a job's status moves only Pending -> Processing ->
\* Completed/Failed; and with no job executing every slot is free.
ExecutionEndsReleased ==
    /\ [](execs = <<>> => \A g \in DOMAIN gpus : gpus[g].available)
    /\ [][/\ \A o \in DOMAIN execs \ DOMAIN execs' :
                /\ gpus'[execs[o].gpu].available
                /\ jobs'[o].status \in TerminalStatuses
                /\ jobs'[o].completed
                /\ jobs'[o].status = "completed" => jobs'[o].result
                /\ jobs'[o].status = "failed" => jobs'[o].error
          /\ \A g \in DOMAIN gpus :
                (gpus'[g].available /\ ~gpus[g].available) =>
                    Cardinality({o \in DOMAIN execs \ DOMAIN execs' :
                                    execs[o].gpu = g}) = 1
          /\ \A o \in DOMAIN jobs : StatusStep(jobs[o], jobs'[o])
          /\ \A o \in DOMAIN jobs' \ DOMAIN jobs : jobs'[o].status = "pending"]_vars

\* A training that returned, a training that raised and a job of unknown
\* type have all ended, and no job holds a slot.
ExecutionEndsReleasedWitness ==
    /\ execs = <<>>
    /\ \A g \in DOMAIN gpus : gpus[g].available
    /\ \E o \in DOMAIN jobs : jobs[o].status = "completed" /\ jobs[o].result
    /\ \E o \in DOMAIN jobs :
          /\ jobs[o].status = "failed" /\ jobs[o].error
          /\ jobs[o].workflow_type \in WorkflowTypes
    /\ \E o \in DOMAIN jobs :
          /\ jobs[o].status = "failed" /\ jobs[o].error
          /\ jobs[o].workflow_type \notin WorkflowTypes

-----------------------------------------------------------------------------
(* Dequeue order *)

Lanes == <<high_priority_queue, medium_priority_queue, low_priority_queue>>

\* The jobs whose coroutine a step creates.
Spawned(before, after) == DOMAIN after \ DOMAIN before

\* Lane l lost its head o, which was started or went back to the lane's
\* tail, and the other lanes are as they were.
TookHeadOf(l, before, after, started) ==
    /\ before[l] # <<>>
    /\ \A k \in 1..3 : k # l => after[k] = before[k]
    /\ \/ after[l] = Tail(before[l]) /\ started = {Head(before[l])}
       \/ after[l] = Append(Tail(before[l]), Head(before[l])) /\ started = {}

\* C24: a step that takes a job from a lane or starts a job takes exactly
\* one job, the head of the first non-empty lane in the order High, Medium,
\* Low, and only with a free slot; with no free slot no step other than an
\* enqueue changes a lane or starts a job.
TickDequeuesHighestHead ==
    [][jobs' = jobs =>
          LET before == Lanes
              after == <<high_priority_queue', medium_priority_queue',
                         low_priority_queue'>>
              started == Spawned(execs, execs')
          IN /\ Cardinality(started) <= 1
             /\ (after # before \/ started # {}) =>
                   /\ get_available_gpu_count > 0
                   /\ \E l \in 1..3 :
                         /\ TookHeadOf(l, before, after, started)
                         /\ \A k \in 1..(l - 1) : before[k] = <<>>
             /\ get_available_gpu_count = 0 =>
                   after = before /\ started = {}]_vars

\* Every slot is taken, one of them by a job of the low lane that was
\* started while the medium lane was empty, and a job that was enqueued
\* later waits in the medium lane.
TickDequeuesHighestHeadWitness ==
    /\ get_available_gpu_count = 0
    /\ \E o \in DOMAIN execs :
          /\ jobs[o].priority = "LOW"
          /\ \E i \in DOMAIN medium_priority_queue : medium_priority_queue[i] > o

-----------------------------------------------------------------------------
(* Quorum of auditors after an auto-assignment pass *)

\* The distinct auditors that hold a clone of (workflow, miner).
AssignedAuditors(auds, w, m) ==
    {Val(auds[a].validator_hotkey) :
        a \in {b \in AuditsOf(auds, w, m) : auds[b].validator_hotkey # None}}

\* The audit and the Validator table after the submission of worker m on
\* task w with the chain reporting the nodes of "active" as active.
AfterSubmission(w, m, active) ==
    auto_assign_audit_tasks(Append(audits, AuditRow(w, m, None)), validators,
                            w, active)

\* No pair of the task holds more auditors than the quorum asks for.
WithinQuorum(auds, w) ==
    \A m \in Miners :
        Cardinality(AssignedAuditors(auds, w, m)) <= ValidatorsPerTask

\* C25: after a submission whose auto-assignment pass finds at least
\* ValidatorsPerTask active auditors, every submitted (task, worker) pair of
\* the task has exactly ValidatorsPerTask distinct assigned auditors, also
\* when auditors were assigned to the pair before the pass.
QuorumAfterPass ==
    [][\A w \in WorkflowIds, m \in Miners, active \in SUBSET Validators :
          (/\ Cardinality(active) >= ValidatorsPerTask
           /\ WithinQuorum(audits, w)
           /\ w \in DOMAIN tasks
           /\ Len(audits') > Len(audits)
           /\ submissions' = Put(submissions, <<w, m>>, now)
           /\ <<audits', validators'>> = AfterSubmission(w, m, active))
          => \A m2 \in Miners :
                AuditsOf(audits', w, m2) # {} =>
                    Cardinality(AssignedAuditors(audits', w, m2))
                        = ValidatorsPerTask]_vars

-----------------------------------------------------------------------------
(* Every accepted job runs to its end *)

\* How often job o occurs in a lane.
Occurrences(lane, o) == Cardinality({i \in DOMAIN lane : lane[i] = o})

Waiting(o) ==
    Occurrences(high_priority_queue, o) + Occurrences(medium_priority_queue, o)
        + Occurrences(low_priority_queue, o)

\* An accepted job is in exactly one place: once in a lane and not started,
\* or executing, or ended.
InOnePlace(o) ==
    \/ Waiting(o) = 1 /\ o \notin DOMAIN execs /\ jobs[o].status = "pending"
                      /\ ~jobs[o].started
    \/ Waiting(o) = 0 /\ o \in DOMAIN execs
                      /\ jobs[o].status \in {"pending", "processing"}
    \/ Waiting(o) = 0 /\ o \notin DOMAIN execs
                      /\ jobs[o].status \in TerminalStatuses

\* C26: no accepted job is lost or duplicated, a job is started only once,
\* from a lane, and every accepted job eventually is Completed or Failed.
EveryJobEnds ==
    /\ [](\A o \in DOMAIN jobs : InOnePlace(o))
    /\ [][\A o \in Spawned(execs, execs') :
             Waiting(o) = 1 /\ ~jobs[o].started]_vars
    /\ \A o \in 1..MaxJobs :
          (o \in DOMAIN jobs)
              ~> (o \in DOMAIN jobs /\ jobs[o].status \in TerminalStatuses)

\* Every job that could be accepted has ended, among them two training
\* jobs, which max_training_jobs kept from running together.
EveryJobEndsWitness ==
    /\ Len(jobs) = MaxJobs
    /\ \A o \in DOMAIN jobs : jobs[o].status \in TerminalStatuses
    /\ Cardinality({o \in DOMAIN jobs : jobs[o].task_type \in TrainingTypes}) >= 2
    /\ \E o \in DOMAIN jobs : jobs[o].task_type \notin TrainingTypes

-----------------------------------------------------------------------------
(* Every published task ends *)

\* The boundaries of a published task lie within the time the model covers.
WithinHorizon(t) ==
    /\ Val(t.execution_start) <= MaxTime
    /\ Val(t.review_start) <= MaxTime
    /\ Val(t.reward_start) <= MaxTime
    /\ Val(t.workflow_end) <= MaxTime

\* C27: every published task (whose boundaries the model's time reaches)
\* eventually has status Ended, and a task that is Ended stays Ended in
\* every later step.
PublishedTaskEnds ==
    /\ \A w \in WorkflowIds :
          (/\ w \in DOMAIN tasks
           /\ tasks[w].publish_status = "published"
           /\ WithinHorizon(tasks[w]))
          ~> (w \in DOMAIN tasks /\ tasks[w].status = "ended")
    /\ [][\A w \in DOMAIN tasks :
             tasks[w].status = "ended" =>
                 (w \in DOMAIN tasks' /\ tasks'[w].status = "ended")]_vars

\* A task published from a draft with its end at the last instant the model
\* covers has ended, and a later publish request for it was refused.
PublishedTaskEndsWitness ==
    \E w \in DOMAIN tasks :
        /\ tasks[w].status = "ended"
        /\ Val(tasks[w].workflow_end) = MaxTime
        /\ Val(tasks[w].announcement_start) > 0
        /\ lastPublish = [workflow_id |-> w, outcome |-> "already_published"]

-----------------------------------------------------------------------------
(* Selection filter *)

\* The worker is reported online by the registry at time t, is active and
\* holds the minimum stake.
Selectable(c, h, t) ==
    /\ is_miner_online(c, h, t)
    /\ c[h].is_active
    /\ c[h].stake >= MinStake

\* C28: a selection returns only workers that are online in the registry,
\* active and at or above the minimum stake when the call is made; without
\* a count it returns each such worker exactly once, with a count at most
\* that many entries, and with no such worker the empty list.
SelectReturnsEligible ==
    [][lastSelect' # lastSelect =>
          LET result == lastSelect'.result
              count == lastSelect'.count
              all == {h \in DOMAIN cache : Selectable(cache, h, wall)}
          IN /\ \A i \in DOMAIN result :
                   result[i] \in DOMAIN cache /\ Selectable(cache, result[i], wall)
             /\ count = None =>
                   \A h \in all :
                       Cardinality({i \in DOMAIN result : result[i] = h}) = 1
             /\ count # None => Len(result) <= Val(count)
             /\ all = {} => result = <<>>]_vars

\* A selection without a count returned both workers after time had passed,
\* while an earlier heartbeat of one of them would have been too old.
SelectReturnsEligibleWitness ==
    /\ lastSelect.count = None
    /\ Len(lastSelect.result) = Cardinality(Miners)
    /\ lastSelect.at > HeartbeatTimeout

-----------------------------------------------------------------------------
(* Delivery properties *)

\* The POSTs went to the endpoints in their order, and none followed a 200.
InEndpointOrder(posts) ==
    /\ Len(posts) <= Len(Endpoints)
    /\ \A i \in DOMAIN posts :
          /\ posts[i][1] = Endpoints[i]
          /\ i < Len(posts) => posts[i][2] # "200"

Succeeded(posts) == \E i \in DOMAIN posts : posts[i][2] = "200"

\* The calls suspended in a delivery to the row.
PostingOn(r) ==
    {k \in DOMAIN assignCalls :
        assignCalls[k].pc = "posting" /\ assignCalls[k].row = r}

\* The entries of a call's list that the loop has gone through have a
\* result or no Miner row.
Processed(call) ==
    \A i \in DOMAIN call.miner_hotkeys :
        (call.pc = "returned" \/ i < call.i) =>
            \/ call.miner_hotkeys[i] \notin miner_rows
            \/ /\ call.miner_hotkeys[i] \in DOMAIN call.results
               /\ existing_assignment(assignments, call.workflow_id,
                                      call.miner_hotkeys[i])

\* C29: the POSTs of a delivery go to the endpoints in their fixed order and
\* none follows a 200; a row is stored as "pending" exactly when the worker
\* has no known address, and otherwise stays "assigned" only while its
\* delivery is in flight and then becomes "delivered" if a POST returned 200
\* and "failed" if none did; whatever the POSTs of one worker do, the call
\* goes through the rest of its list.
DeliveryOutcome ==
    /\ [](/\ InEndpointOrder(lastDelivery.posts)
          /\ \A k \in DOMAIN assignCalls :
                /\ InEndpointOrder(assignCalls[k].posts)
                /\ ~Succeeded(assignCalls[k].posts)
                /\ Processed(assignCalls[k])
          /\ \A r \in DOMAIN assignments :
                /\ assignments[r].status \in {"assigned", "pending", "delivered", "failed"}
                /\ assignments[r].status = "assigned" <=> PostingOn(r) # {})
    /\ [][\A r \in DOMAIN assignments' :
             IF r \notin DOMAIN assignments
             THEN assignments'[r].status = "pending"
                      <=> MinerUrlOf(cache, assignments'[r].miner_hotkey) = None
             ELSE assignments'[r].status # assignments[r].status =>
                     /\ assignments[r].status = "assigned"
                     /\ lastDelivery'.row = r
                     /\ lastDelivery'.posts # <<>>
                     /\ assignments'[r].status =
                            IF Succeeded(lastDelivery'.posts) THEN "delivered"
                            ELSE "failed"]_vars

\* A call has returned whose first worker's delivery failed and whose second
\* worker's delivery succeeded at the second endpoint after the first raised.
DeliveryOutcomeWitness ==
    \E k \in DOMAIN assignCalls :
        LET call == assignCalls[k]
        IN /\ call.pc = "returned"
           /\ Len(call.miner_hotkeys) = 2
           /\ call.miner_hotkeys[1] # call.miner_hotkeys[2]
           /\ \E r \in DOMAIN assignments :
                 /\ assignments[r].miner_hotkey = call.miner_hotkeys[1]
                 /\ assignments[r].status = "failed"
           /\ lastDelivery.row \in DOMAIN assignments
           /\ assignments[lastDelivery.row].miner_hotkey = call.miner_hotkeys[2]
           /\ assignments[lastDelivery.row].status = "delivered"
           /\ lastDelivery.posts = <<<<Endpoints[1], "raised">>, <<Endpoints[2], "200">>>>

-----------------------------------------------------------------------------
(* The order of the candidates within an auto-assignment pass *)

\* What the iterations of the pass that follows the submission of worker m
\* on task w chose, with the chain reporting the nodes of "active" as active.
ChoicesAfterSubmission(w, m, active) ==
    LET auds == Append(audits, AuditRow(w, m, None))
        vals == [v \in DOMAIN validators \cup active |->
                   IF v \in DOMAIN validators THEN validators[v] ELSE 0]
        templates == IdSeq({a \in DOMAIN auds :
                               /\ auds[a].original_task_id = w
                               /\ auds[a].validator_hotkey = None})
    IN PassChoices(<<auds, [v \in active |-> 0]>>, templates, 1,
                   EligibleValidators(vals, auds, active),
                   [v \in active |-> priority_score(vals, auds, v)],
                   [v \in active |-> pending_count(auds, v)])

\* Candidate a comes strictly before candidate b: higher priority_score, then
\* fewer assignments received in this pass, then fewer pending audits.
RanksBefore(a, b, prio, count, pend) ==
    \/ prio[a] > prio[b]
    \/ prio[a] = prio[b] /\ count[a] < count[b]
    \/ prio[a] = prio[b] /\ count[a] = count[b] /\ pend[a] < pend[b]

\* The chosen auditors are the first "needed" of the candidates.
FirstNeeded(choice, active, prio, pend) ==
    LET chosen == {choice.selected[i] : i \in DOMAIN choice.selected}
    IN /\ chosen \subseteq active
       /\ Cardinality(chosen) = Len(choice.selected)
       /\ Len(choice.selected) =
              IF choice.needed <= 0 THEN 0
              ELSE IF choice.needed < Cardinality(active) THEN choice.needed
              ELSE Cardinality(active)
       /\ \A a \in chosen, b \in active \ chosen :
              ~RanksBefore(b, a, prio, choice.count, pend)
       /\ \A i, j \in DOMAIN choice.selected :
              i < j => ~RanksBefore(choice.selected[j], choice.selected[i],
                                    prio, choice.count, pend)

\* C30: in every auto-assignment pass the auditors chosen for a unit are the
\* first "needed" candidates in the order priority_score descending, then
\* assignments received in this pass ascending, then pending audit count
\* ascending; and no (task, worker, auditor) triple holds two clones.
ChosenInRankOrder ==
    /\ \A w \in DOMAIN tasks, m \in Miners, active \in ActiveSets \ {{}} :
          LET choices == ChoicesAfterSubmission(w, m, active)
              auds == Append(audits, AuditRow(w, m, None))
              vals == [v \in active |->
                         IF v \in DOMAIN validators THEN validators[v] ELSE 0]
              prio == [v \in active |-> priority_score(vals, auds, v)]
              pend == [v \in active |-> pending_count(auds, v)]
          IN \A k \in DOMAIN choices : FirstNeeded(choices[k], active, prio, pend)
    /\ \A w \in WorkflowIds, m \in Miners, v \in Validators :
          Cardinality(AssignedTo(audits, w, m, v)) <= 1

\* A pair whose first auditor still had its audit pending when a pass with
\* three active auditors ran: the pass chose the two idle auditors for the
\* two clones the pair needed.
ChosenInRankOrderWitness ==
    \E m \in Miners :
        LET ids == IdSeq(AuditsOf(audits, "w1", m))
        IN /\ [p \in DOMAIN ids |-> audits[ids[p]].validator_hotkey]
                  = <<None, Some(ChainNodes[1]), None, Some(ChainNodes[2]),
                      Some(ChainNodes[3])>>
           /\ ~audits[ids[2]].is_completed

=============================================================================
